---------------------------- MODULE Spec2Model ----------------------------
(***************************************************************************)
(* A model of the gRPC core of resonance (src-tauri/src/commands):         *)
(* grpc_reflection.rs and grpc_proto.rs.  Strings are sequences of         *)
(* one-character strings, so that trim, starts_with and split are          *)
(* computed as the Rust code computes them.                                *)
(***************************************************************************)
EXTENDS Integers, Sequences, FiniteSets, TLC

(***************************************************************************)
(* Bounds of the model.                                                    *)
(***************************************************************************)
MaxMethodLen == 5

MaxDeps == 2

MaxEdges == 3

MaxResp == 2

MaxSkip == 1

(***************************************************************************)
(* Strings.                                                                *)
(***************************************************************************)
Whitespace == {" "}

IsWhitespace(c) == c \in Whitespace

RECURSIVE TrimStart(_)
TrimStart(s) ==
    IF s = <<>> THEN s
    ELSE IF IsWhitespace(Head(s)) THEN TrimStart(Tail(s)) ELSE s

RECURSIVE TrimEnd(_)
TrimEnd(s) ==
    IF s = <<>> THEN s
    ELSE IF IsWhitespace(s[Len(s)]) THEN TrimEnd(SubSeq(s, 1, Len(s) - 1)) ELSE s

\* str::trim
Trim(s) == TrimEnd(TrimStart(s))

\* str::starts_with
StartsWith(s, p) == Len(s) >= Len(p) /\ SubSeq(s, 1, Len(p)) = p

\* str::split(c): the segments between the occurrences of c, empty ones kept
RECURSIVE Split(_, _)
Split(s, c) ==
    IF \A i \in 1..Len(s) : s[i] # c THEN <<s>>
    ELSE LET i == CHOOSE k \in 1..Len(s) :
                      s[k] = c /\ \A j \in 1..(k - 1) : s[j] # c
         IN  <<SubSeq(s, 1, i - 1)>> \o Split(SubSeq(s, i + 1, Len(s)), c)

\* .filter(|p| !p.is_empty()).collect()
NonEmptyParts(parts) == SelectSeq(parts, LAMBDA p : p # <<>>)

\* The strings over alphabet A of length at most n
StringsUpTo(A, n) == UNION {[1..k -> A] : k \in 0..n}

(***************************************************************************)
(* Results: Ok(value) and Err(message); a message is its format string     *)
(* and its arguments.                                                      *)
(***************************************************************************)
Ok(v) == [tag |-> "Ok", val |-> v]

Err(m, a) == [tag |-> "Err", msg |-> m, args |-> a]

NoResult == [tag |-> "None"]

IsOk(r) == r.tag = "Ok"

IsErr(r) == r.tag = "Err"

ErrMustStartWithSlash == Err("fullMethod must start with '/'", <<>>)

ErrMustBeInForm == Err("fullMethod must be in the form '/package.Service/Method'", <<>>)

\* The two validation errors of a method address
IsValidationError(r) ==
    /\ IsErr(r)
    /\ r.msg \in {ErrMustStartWithSlash.msg, ErrMustBeInForm.msg}

(***************************************************************************)
(* Method addresses.  The check at the head of resolve_method_types,       *)
(* resolve_method_types_from_pool and                                      *)
(* build_descriptor_pool_for_method_with_tls: Ok(<<service, method>>) or   *)
(* the validation error.                                                   *)
(***************************************************************************)
ParseFullMethod(full_method) ==
    LET trimmed == Trim(full_method)
        parts   == NonEmptyParts(Split(trimmed, "/"))
    IN  IF ~StartsWith(trimmed, <<"/">>) THEN ErrMustStartWithSlash
        ELSE IF Len(parts) # 2 THEN ErrMustBeInForm
        ELSE Ok(<<parts[1], parts[2]>>)


(***************************************************************************)
(* Descriptor pools.  A pool holds its services, each with its full name   *)
(* and the sequence of its methods (name, input and output message full    *)
(* names), and the set of its message full names.                          *)
(***************************************************************************)
Method(n, i, o) == [name |-> n, input |-> i, output |-> o]

EmptyPool == [services |-> <<>>, messages |-> {}]

\* DescriptorPool::get_service_by_name
HasService(pool, service_name) ==
    \E i \in 1..Len(pool.services) : pool.services[i].full_name = service_name

GetServiceByName(pool, service_name) ==
    pool.services[CHOOSE i \in 1..Len(pool.services) :
                      pool.services[i].full_name = service_name]

\* service.methods().find(|m| m.name() == method_name): the first match
HasMethod(service, method_name) ==
    \E i \in 1..Len(service.methods) : service.methods[i].name = method_name

\* FindMethod without the test of the name
FindMethodFirst(service, method_name) == service.methods[1]

FindMethod(service, method_name) ==
    service.methods[CHOOSE i \in 1..Len(service.methods) :
                        /\ service.methods[i].name = method_name
                        /\ \A j \in 1..(i - 1) :
                               service.methods[j].name # method_name]

\* resolve_method_types / resolve_method_types_from_pool
ResolveMethodTypes(pool, full_method) ==
    LET parsed == ParseFullMethod(full_method)
    IN  IF IsErr(parsed) THEN parsed
        ELSE LET service_name == parsed.val[1]
                 method_name  == parsed.val[2]
             IN  IF ~HasService(pool, service_name)
                 THEN Err("Service not found in descriptors: {}", <<service_name>>)
                 ELSE IF ~HasMethod(GetServiceByName(pool, service_name), method_name)
                 THEN Err("Method not found: {} on {}", <<method_name, service_name>>)
                 ELSE LET m == FindMethod(GetServiceByName(pool, service_name),
                                          method_name)
                      IN  Ok(<<m.input, m.output>>)

\* The number of service lookups resolve_method_types performs
ServiceLookups(full_method) == IF IsOk(ParseFullMethod(full_method)) THEN 1 ELSE 0

(***************************************************************************)
(* Targets.                                                                *)
(***************************************************************************)
HttpPrefix == <<"h", "t", "t", "p", ":", "/", "/">>

HttpsPrefix == <<"h", "t", "t", "p", "s", ":", "/", "/">>

\* normalize_target_with_tls with use_tls ignored, as normalize_target does
NormalizeTargetPlain(target, use_tls) ==
    LET trimmed == Trim(target)
    IN  IF StartsWith(trimmed, HttpPrefix) \/ StartsWith(trimmed, HttpsPrefix)
        THEN trimmed
        ELSE HttpPrefix \o trimmed

\* normalize_target_with_tls
NormalizeTargetWithTls(target, use_tls) ==
    LET trimmed == Trim(target)
    IN  IF StartsWith(trimmed, HttpPrefix) \/ StartsWith(trimmed, HttpsPrefix)
        THEN trimmed
        ELSE IF use_tls THEN HttpsPrefix \o trimmed
        ELSE HttpPrefix \o trimmed

\* Endpoint::from_shared: the target must parse as a URI
ValidUri(t) == t # <<>> /\ \A i \in 1..Len(t) : ~IsWhitespace(t[i])

(***************************************************************************)
(* Reflection.  The server holds one file per name of FileNames; a file    *)
(* is its optional name (<<>> is None, <<n>> is Some(n)) and its           *)
(* dependency list.                                                        *)
(***************************************************************************)
FileNames == {<<"a">>, <<"b">>, <<"c">>}

DepLists == StringsUpTo(FileNames, MaxDeps)

RECURSIVE SumLen(_, _)
SumLen(g, S) ==
    IF S = {} THEN 0
    ELSE LET n == CHOOSE x \in S : TRUE IN Len(g[n]) + SumLen(g, S \ {n})

\* The dependency graphs of the server: at most MaxEdges declarations in all
Graphs == {g \in [FileNames -> DepLists] : SumLen(g, FileNames) <= MaxEdges}

FileDescriptorProto(n, d) == [name |-> n, dependency |-> d]

NamelessFile == FileDescriptorProto(<<>>, <<>>)

\* reflection::ServerReflectionResponse.message_response
FileDescriptorResponse(files) ==
    [kind |-> "file_descriptor_response", files |-> files, decodable |-> TRUE]

\* A file-descriptor response with bytes FileDescriptorProto::decode rejects
UndecodableResponse ==
    [kind |-> "file_descriptor_response", files |-> <<>>, decodable |-> FALSE]

ErrorResponse(c, m) == [kind |-> "error_response", code |-> c, message |-> m]

OtherResponse == [kind |-> "other"]

ErrorResponses == {ErrorResponse(5, "not found"), ErrorResponse(12, "unimplemented")}

ErrNoReflectionResponse == Err("No reflection response received", <<>>)

\* ReadReflectionStream with error responses skipped like other responses
RECURSIVE ReadReflectionStreamSkippingErrors(_, _)
ReadReflectionStreamSkippingErrors(stream, ending) ==
    IF stream = <<>>
    THEN IF ending = "status" THEN Err("{}", <<"status">>)
         ELSE ErrNoReflectionResponse
    ELSE LET resp == Head(stream)
         IN  IF resp.kind = "file_descriptor_response"
             THEN IF ~resp.decodable
                  THEN Err("Failed to decode FileDescriptorProto: {}", <<>>)
                  ELSE Ok(resp.files)
             ELSE ReadReflectionStreamSkippingErrors(Tail(stream), ending)

\* The loop over stream.message() of reflection_request_file_containing_symbol
\* and reflection_request_file_by_filename: the first file-descriptor or
\* error response decides; ending is how the stream ends after its messages
\* ("end": Ok(None), "status": Err(status)).
RECURSIVE ReadReflectionStream(_, _)
ReadReflectionStream(stream, ending) ==
    IF stream = <<>>
    THEN IF ending = "status" THEN Err("{}", <<"status">>)
         ELSE ErrNoReflectionResponse
    ELSE LET resp == Head(stream)
         IN  CASE resp.kind = "file_descriptor_response" ->
                    IF ~resp.decodable
                    THEN Err("Failed to decode FileDescriptorProto: {}", <<>>)
                    ELSE Ok(resp.files)
               [] resp.kind = "error_response" ->
                    Err("Reflection error {}: {}", <<resp.code, resp.message>>)
               [] OTHER -> ReadReflectionStream(Tail(stream), ending)

\* queue_descriptor with the result of seen.insert ignored
QueueDescriptorAlways(q, fd) ==
    IF fd.name # <<>>
    THEN [collected |-> Append(q.collected, fd), seen |-> q.seen \cup {fd.name[1]}]
    ELSE q

\* queue_descriptor on the pair (collected, seen)
QueueDescriptor(q, fd) ==
    IF fd.name # <<>> /\ fd.name[1] \notin q.seen
    THEN [collected |-> Append(q.collected, fd), seen |-> q.seen \cup {fd.name[1]}]
    ELSE q

\* for fd in files { queue_descriptor(&mut collected, &mut seen, fd) }
RECURSIVE QueueAll(_, _)
QueueAll(q, files) ==
    IF files = <<>> THEN q
    ELSE QueueAll(QueueDescriptor(q, Head(files)), Tail(files))

\* What the files of the server declare: service s with method m in file a,
\* the messages of m in files a and b.
FileServices(n) ==
    IF n = <<"a">>
    THEN <<[full_name |-> <<"s">>,
            methods |-> <<Method(<<"m">>, <<"I">>, <<"O">>)>>]>>
    ELSE <<>>

FileMessages(n) ==
    IF n = <<"a">> THEN {<<"O">>} ELSE IF n = <<"b">> THEN {<<"I">>} ELSE {}

\* The pool DescriptorPool::from_file_descriptor_set builds from the files
RECURSIVE PoolOfFiles(_)
PoolOfFiles(files) ==
    IF files = <<>> THEN EmptyPool
    ELSE LET rest == PoolOfFiles(Tail(files))
             n    == Head(files).name[1]
         IN  [services |-> FileServices(n) \o rest.services,
              messages |-> FileMessages(n) \cup rest.messages]

(***************************************************************************)
(* The state: one command in progress, the server it talks to, and what    *)
(* it has put on the wire.                                                 *)
(***************************************************************************)
VARIABLES
    cmd,           \* the command: its name
    target,        \* request.target
    tls,           \* request.tls: [use_tls, skip_verify]
    full_method,   \* request.full_method
    metadata,      \* request.metadata: a map from keys to values
    deadline_ms,   \* request.deadline_ms: <<>> (None) or <<ms>>
    request_json,  \* request.request_json: conforms to the input type or not
    proto_path,    \* the path given to the proto commands
    pools,         \* ProtoState.pools: a map from paths to pools
    serverDeps,    \* the dependency list of each file of the server
    pc,            \* where the command is
    norm_target,   \* the local target
    pool,          \* the local pool
    collected,     \* build_descriptor_pool_for_method_with_tls: collected
    seen,          \* seen
    idx,           \* idx
    deps,          \* the dependencies of collected[idx - 1] still to visit
    resolved,      \* what resolve_method_types returned
    lookups,       \* the number of get_service_by_name calls
    wire,          \* what the command did on the network, in order
    netResponse,   \* the answer to the unary call, once it has arrived
    result,        \* what the command returned
    initial,       \* the names of the files answering file_containing_symbol
    faithful,      \* every file_by_filename answer held the file of that name
    answered,      \* how the last reflection request was answered, if any was
    fs,            \* the temporary descriptor-set files that exist
    ops,           \* the number of commands on ProtoState.pools run so far
    lastOp,        \* the last of them: its name, its path, what it met, its result
    codecStage,    \* where a message is on its way through the codec
    codecDesc,     \* the message descriptor of the codec
    codecJson,     \* the JSON value given to json_to_dynamic_message
    codecItem,     \* the message it was mapped to: <<>> (none) or <<message>>
    codecBuf,      \* the bytes the encoder wrote: the wire fields in order
    codecDecoded,  \* what the decoder returned: <<>> (None) or <<message>>
    codecOut,      \* what dynamic_message_to_json returned: <<>> or <<value>>
    server_handle, \* SERVER_HANDLE: <<>> (None) or <<the listener of the handle>>
    listeners,     \* the mock servers spawned so far, in order
    calls          \* the mock_server_start and mock_server_stop calls under way

protoVars == <<fs, ops, lastOp>>

codecVars == <<codecStage, codecDesc, codecJson, codecItem, codecBuf, codecDecoded,
               codecOut>>

mockVars == <<server_handle, listeners, calls>>

inputVars == <<cmd, target, tls, full_method, metadata, deadline_ms, request_json,
               proto_path, pools, serverDeps, protoVars, codecVars, mockVars>>

reflVars == <<collected, seen, idx, deps, initial, faithful, answered>>

vars == <<cmd, target, tls, full_method, metadata, deadline_ms, request_json,
          proto_path, pools, serverDeps, pc, norm_target, pool, collected, seen,
          idx, deps, resolved, lookups, wire, netResponse, result, initial,
          faithful, answered, fs, ops, lastOp, codecVars, mockVars>>

\* What the command puts on the wire
Connect == [ev |-> "connect", reqs |-> <<>>]

FileContainingSymbol(symbol) == [kind |-> "file_containing_symbol", arg |-> symbol]

FileByFilename(filename) == [kind |-> "file_by_filename", arg |-> filename]

\* grpc.streaming(Request::new(tokio_stream::iter(vec![req])), ..): a stream
\* of its own, on which exactly req is sent
ReflectionInfoStream(req) == [ev |-> "stream", reqs |-> <<req>>]

UnaryCall == [ev |-> "unary", reqs |-> <<>>]

Events(kind) == SelectSeq(wire, LAMBDA e : e.ev = kind)

\* The requests sent on reflection streams, in order
RECURSIVE Requests(_)
Requests(w) ==
    IF w = <<>> THEN <<>>
    ELSE Head(w).reqs \o Requests(Tail(w))

Return(r) == result' = r /\ pc' = "done"

(***************************************************************************)
(* What the server may answer to one reflection request.                   *)
(***************************************************************************)
ServerFiles == {FileDescriptorProto(<<n>>, serverDeps[n]) : n \in FileNames}

FileLists == StringsUpTo(ServerFiles \cup {NamelessFile}, MaxResp)

Deciding ==
    {FileDescriptorResponse(l) : l \in FileLists}
        \cup ErrorResponses \cup {UndecodableResponse}

\* How reflection_info_stream and the reading of its stream may go: the
\* client is not ready, the streaming call returns a status, or the stream
\* opens and holds responses of other kinds and then nothing more (it ends,
\* or reading it fails), or a deciding response, perhaps with an error
\* response after it
Skipped == StringsUpTo({OtherResponse}, MaxSkip)

Answers ==
    {<<"not_ready", <<>>, "end">>, <<"status", <<>>, "end">>}
        \cup {<<"open", pre, e>> : pre \in Skipped, e \in {"end", "status"}}
        \cup {<<"open", pre \o <<d>>, "end">> : pre \in Skipped, d \in Deciding}
        \cup {<<"open", <<d, ErrorResponse(12, "unimplemented")>>, "end">> :
                 d \in Deciding}

\* reflection_request_file_containing_symbol, reflection_request_file_by_filename
ReflectionRequest(answer) ==
    CASE answer[1] = "not_ready" -> Err("Reflection client not ready: {}", <<>>)
      [] answer[1] = "status" -> Err("{}", <<"status">>)
      [] OTHER -> ReadReflectionStream(answer[2], answer[3])

\* WireAfterRequest with one stream shared by the requests of a resolution
WireAfterRequestShared(answer, req) ==
    IF answer[1] = "not_ready" THEN wire
    ELSE IF \E i \in 1..Len(wire) : wire[i].ev = "stream"
    THEN [i \in 1..Len(wire) |->
             IF wire[i].ev = "stream"
             THEN [wire[i] EXCEPT !.reqs = Append(@, req)]
             ELSE wire[i]]
    ELSE Append(wire, ReflectionInfoStream(req))

WireAfterRequest(answer, req) ==
    IF answer[1] = "not_ready" THEN wire ELSE Append(wire, ReflectionInfoStream(req))

\* What the server answered, as the protocol sees it: whether the stream
\* opened, the first file-descriptor or error response on it (the files of a
\* file-descriptor response left out), and how the stream ended
FirstDeciding(stream) ==
    LET at == {i \in 1..Len(stream) : stream[i].kind # "other"}
    IN  IF at = {} THEN OtherResponse
        ELSE LET i == CHOOSE k \in at : \A j \in at : k <= j
             IN  IF stream[i].kind = "error_response" THEN stream[i]
                 ELSE [kind |-> stream[i].kind, decodable |-> stream[i].decodable]

AnswerSeen(answer) ==
    <<[opening |-> answer[1], first |-> FirstDeciding(answer[2]),
       ending |-> answer[3]]>>

RECURSIVE NamesOf(_)
NamesOf(files) ==
    IF files = <<>> THEN {}
    ELSE (IF Head(files).name = <<>> THEN {} ELSE {Head(files).name[1]})
             \cup NamesOf(Tail(files))

(***************************************************************************)
(* build_descriptor_pool_for_method_with_tls                               *)
(***************************************************************************)
\* lines 482-490: the address is checked before anything else
BpValidate ==
    /\ pc = "bp_validate"
    /\ IF IsErr(ParseFullMethod(full_method))
       THEN Return(ParseFullMethod(full_method))
       ELSE pc' = "bp_connect" /\ UNCHANGED result
    /\ UNCHANGED <<inputVars, reflVars, norm_target, pool, resolved, lookups, wire,
                   netResponse>>


\* Endpoint with the certificate verification turned off by tls.skip_verify
EndpointSkippingVerify(uri, tls_options) ==
    [uri |-> uri,
     tls_config |-> IF ~tls_options.use_tls THEN <<>>
                    ELSE IF tls_options.skip_verify
                    THEN <<"ClientTlsConfig without verification">>
                    ELSE <<"ClientTlsConfig::new()">>]

\* The endpoint create_channel builds: Endpoint::from_shared(uri) and,
\* when tls.use_tls, tls_config(ClientTlsConfig::new())
Endpoint(uri, tls_options) ==
    [uri |-> uri,
     tls_config |-> IF tls_options.use_tls THEN <<"ClientTlsConfig::new()">>
                    ELSE <<>>]

\* CreateChannel with a failed connect attempted again
CreateChannelRetrying(next) ==
    /\ \E tls_ok \in BOOLEAN, connected \in BOOLEAN :
          IF ~ValidUri(norm_target)
          THEN Return(Err("Invalid target: {}", <<>>)) /\ UNCHANGED wire
          ELSE IF tls.use_tls /\ ~tls_ok
          THEN Return(Err("TLS config error: {}", <<>>)) /\ UNCHANGED wire
          ELSE /\ wire' = Append(wire, Connect)
               /\ IF connected THEN pc' = next /\ UNCHANGED result
                  ELSE UNCHANGED <<pc, result>>
    /\ UNCHANGED <<inputVars, reflVars, norm_target, pool, resolved, lookups,
                   netResponse>>

\* create_channel: Endpoint::from_shared, tls_config, connect
CreateChannel(next) ==
    /\ \E tls_ok \in BOOLEAN, connected \in BOOLEAN :
          IF ~ValidUri(Endpoint(norm_target, tls).uri)
          THEN Return(Err("Invalid target: {}", <<>>)) /\ UNCHANGED wire
          ELSE IF Endpoint(norm_target, tls).tls_config # <<>> /\ ~tls_ok
          THEN Return(Err("TLS config error: {}", <<>>)) /\ UNCHANGED wire
          ELSE /\ wire' = Append(wire, Connect)
               /\ IF connected THEN pc' = next /\ UNCHANGED result
                  ELSE Return(Err("Connection failed: {}", <<>>))
    /\ UNCHANGED <<inputVars, reflVars, norm_target, pool, resolved, lookups,
                   netResponse>>

\* grpc.ready().await
Ready(next, message) ==
    /\ \E ready \in BOOLEAN :
          IF ready THEN pc' = next /\ UNCHANGED result
          ELSE Return(Err(message, <<>>))
    /\ UNCHANGED <<inputVars, reflVars, norm_target, pool, resolved, lookups, wire,
                   netResponse>>

BpConnect == pc = "bp_connect" /\ CreateChannel("bp_ready")

BpReady == pc = "bp_ready" /\ Ready("bp_initial", "Reflection client not ready: {}")

\* lines 499-505
BpInitial ==
    /\ pc = "bp_initial"
    /\ \E answer \in Answers :
          LET service_symbol == ParseFullMethod(full_method).val[1]
              r == ReflectionRequest(answer)
              q == QueueAll([collected |-> <<>>, seen |-> {}], r.val)
          IN  /\ wire' = WireAfterRequest(answer, FileContainingSymbol(service_symbol))
              /\ answered' = AnswerSeen(answer)
              /\ IF IsErr(r)
                 THEN Return(r) /\ UNCHANGED <<collected, seen, initial>>
                 ELSE /\ collected' = q.collected
                      /\ seen' = q.seen
                      /\ initial' = NamesOf(r.val)
                      /\ pc' = "bp_loop"
                      /\ UNCHANGED result
    /\ UNCHANGED <<inputVars, idx, deps, faithful, norm_target, pool, resolved,
                   lookups, netResponse>>

\* BpLoop without idx += 1
BpLoopNoAdvance ==
    /\ pc = "bp_loop"
    /\ IF idx < Len(collected)
       THEN /\ deps' = collected[idx + 1].dependency
            /\ pc' = "bp_deps"
            /\ UNCHANGED idx
       ELSE pc' = "bp_pool" /\ UNCHANGED <<deps, idx>>
    /\ UNCHANGED <<inputVars, collected, seen, initial, faithful, answered,
                   norm_target, pool, resolved, lookups, wire, netResponse, result>>

\* lines 507-510: the head of the while loop
BpLoop ==
    /\ pc = "bp_loop"
    /\ IF idx < Len(collected)
       THEN /\ deps' = collected[idx + 1].dependency
            /\ idx' = idx + 1
            /\ pc' = "bp_deps"
       ELSE pc' = "bp_pool" /\ UNCHANGED <<deps, idx>>
    /\ UNCHANGED <<inputVars, collected, seen, initial, faithful, answered,
                   norm_target, pool, resolved, lookups, wire, netResponse, result>>

\* BpDeps without the test of seen: every dependency is requested
BpDepsUnchecked ==
    /\ pc = "bp_deps"
    /\ IF deps = <<>>
       THEN /\ pc' = "bp_loop"
            /\ UNCHANGED <<deps, collected, seen, faithful, answered, wire, result>>
       ELSE /\ deps' = Tail(deps)
            /\ IF FALSE
               THEN UNCHANGED <<pc, collected, seen, faithful, answered, wire,
                                result>>
               ELSE \E answer \in Answers :
                       LET r == ReflectionRequest(answer)
                           q == QueueAll([collected |-> collected, seen |-> seen],
                                         r.val)
                       IN  /\ wire' = WireAfterRequest(answer,
                                                       FileByFilename(Head(deps)))
                           /\ answered' = AnswerSeen(answer)
                           /\ IF IsErr(r)
                              THEN /\ Return(r)
                                   /\ UNCHANGED <<collected, seen, faithful>>
                              ELSE /\ collected' = q.collected
                                   /\ seen' = q.seen
                                   /\ faithful' =
                                         (faithful /\ Head(deps) \in NamesOf(r.val))
                                   /\ UNCHANGED <<pc, result>>
    /\ UNCHANGED <<inputVars, idx, initial, norm_target, pool, resolved, lookups,
                   netResponse>>

\* lines 511-519: one turn of the for loop over deps
BpDeps ==
    /\ pc = "bp_deps"
    /\ IF deps = <<>>
       THEN /\ pc' = "bp_loop"
            /\ UNCHANGED <<deps, collected, seen, faithful, answered, wire, result>>
       ELSE /\ deps' = Tail(deps)
            /\ IF Head(deps) \in seen
               THEN UNCHANGED <<pc, collected, seen, faithful, answered, wire,
                                result>>
               ELSE \E answer \in Answers :
                       LET r == ReflectionRequest(answer)
                           q == QueueAll([collected |-> collected, seen |-> seen],
                                         r.val)
                       IN  /\ wire' = WireAfterRequest(answer,
                                                       FileByFilename(Head(deps)))
                           /\ answered' = AnswerSeen(answer)
                           /\ IF IsErr(r)
                              THEN /\ Return(r)
                                   /\ UNCHANGED <<collected, seen, faithful>>
                              ELSE /\ collected' = q.collected
                                   /\ seen' = q.seen
                                   /\ faithful' =
                                         (faithful /\ Head(deps) \in NamesOf(r.val))
                                   /\ UNCHANGED <<pc, result>>
    /\ UNCHANGED <<inputVars, idx, initial, norm_target, pool, resolved, lookups,
                   netResponse>>

\* lines 522-524: DescriptorPool::from_file_descriptor_set accepts the files
\* or rejects them
BpPool ==
    /\ pc = "bp_pool"
    /\ \E accepted \in BOOLEAN :
          IF accepted
          THEN pool' = PoolOfFiles(collected) /\ pc' = "resolve" /\ UNCHANGED result
          ELSE /\ Return(Err("Failed to build descriptor pool: {}", <<>>))
               /\ UNCHANGED pool
    /\ UNCHANGED <<inputVars, reflVars, norm_target, resolved, lookups, wire,
                   netResponse>>

(***************************************************************************)
(* Message descriptors.  The message and enum types the schemas declare:   *)
(* a field is its name, its kind (a scalar kind, or "message" or "enum"    *)
(* with the full name of the type) and its cardinality; a map field is of  *)
(* kind message, its type the map entry with the fields key and value.     *)
(***************************************************************************)
Field(n, k, t, c) == [name |-> n, kind |-> k, type |-> t, card |-> c]

Scalar(n, k) == Field(n, k, <<>>, "singular")

\* message_descriptor.fields(), in the order of the field numbers
MessageFields(full_name) ==
    CASE full_name = <<"I">> ->
            <<Scalar("x", "int32"),
              Field("y", "string", <<>>, "list"),
              Field("z", "enum", <<"E">>, "singular")>>
      [] full_name = <<"O">> -> <<Scalar("ok", "bool")>>
      [] full_name = <<"S">> ->
            <<Scalar("d", "double"), Scalar("u", "uint64"), Scalar("raw", "bytes")>>
      [] full_name = <<"P">> ->
            <<Field("inner", "message", <<"O">>, "singular"),
              Field("tags", "message", <<"P", "e">>, "map"),
              Field("kids", "message", <<"O">>, "list")>>
      [] full_name = <<"P", "e">> ->
            <<Scalar("key", "string"), Scalar("value", "string")>>
      [] full_name = <<"N">> ->
            <<Field("next", "message", <<"N">>, "singular"), Scalar("v", "int32")>>
      [] full_name = <<"M">> -> <<Field("w", "message", <<"W">>, "singular")>>
      [] full_name = <<"W">> -> <<Field("m", "message", <<"M">>, "singular")>>
      [] full_name = <<"R">> -> <<Field("kids", "message", <<"R">>, "list")>>
      [] full_name = <<"T">> -> <<Field("by", "message", <<"T", "e">>, "map")>>
      [] full_name = <<"T", "e">> ->
            <<Scalar("key", "string"),
              Field("value", "message", <<"T">>, "singular")>>
      [] full_name = <<"Z">> -> <<Field("none", "enum", <<"F">>, "singular")>>
      [] OTHER -> <<>>

\* enum_descriptor.values(), in the order of their declaration
EnumValues(full_name) ==
    IF full_name = <<"E">> THEN <<"E_FIRST", "E_SECOND">> ELSE <<>>

MessageNames ==
    {<<"I">>, <<"O">>, <<"S">>, <<"P">>, <<"P", "e">>, <<"N">>, <<"M">>, <<"W">>,
     <<"R">>, <<"T">>, <<"T", "e">>, <<"Z">>}

(***************************************************************************)
(* JSON values (serde_json::Value).  An object is a map from its keys to   *)
(* its values.                                                             *)
(***************************************************************************)
JsonNumber(text) == [json |-> "number", text |-> text]

JsonBool(text) == [json |-> "bool", text |-> text]

JsonString(text) == [json |-> "string", text |-> text]

JsonArray(items) == [json |-> "array", items |-> items]

JsonObject(members) == [json |-> "object", members |-> members]

EmptyMap == [k \in {} |-> JsonBool("false")]

\* MapInsert into a map that keeps with each entry the place it was put at
MapInsertIndexed(map, key, value) ==
    [k \in DOMAIN map \cup {key} |->
        IF k = key
        THEN [json |-> "entry", at |-> Cardinality(DOMAIN map), value |-> value]
        ELSE map[k]]

\* serde_json::Map::insert
MapInsert(map, key, value) ==
    [k \in DOMAIN map \cup {key} |-> IF k = key THEN value ELSE map[k]]

\* The recursion of the generator has used up the stack
StackOverflow == [json |-> "stack overflow"]

MaxStack == 4

\* The process has ended on a stack overflow: the command returns nothing
Aborted == [tag |-> "Aborted"]

(***************************************************************************)
(* generate_message_skeleton and generate_field_skeleton.  depth is the    *)
(* number of calls the stack still has room for; fields_order is the order *)
(* in which desc.fields() yields the fields.                               *)
(***************************************************************************)
FieldOrders == {p \in [1..3 -> 1..3] : \A i, j \in 1..3 : i # j => p[i] # p[j]}

\* The positions 1..n in the order p visits them
OrderOf(p, n) == SelectSeq(p, LAMBDA i : i <= n)

RECURSIVE GenerateMessageSkeleton(_, _, _)
\* generate_field_skeleton taking the last declared value of an enum
GenerateFieldSkeletonLastValue(field, fields_order, depth) ==
    CASE field.kind \in {"double", "float"} -> JsonNumber("0.0")
      [] field.kind = "bool" -> JsonBool("false")
      [] field.kind \in {"string", "bytes"} -> JsonString("")
      [] field.kind = "message" ->
            GenerateMessageSkeleton(field.type, fields_order, depth)
      [] field.kind = "enum" ->
            IF EnumValues(field.type) # <<>>
            THEN JsonString(EnumValues(field.type)[Len(EnumValues(field.type))])
            ELSE JsonNumber("0")
      [] OTHER -> JsonNumber("0")

GenerateFieldSkeleton(field, fields_order, depth) ==
    CASE field.kind \in {"double", "float"} -> JsonNumber("0.0")
      [] field.kind \in {"int32", "sint32", "sfixed32", "int64", "sint64",
                         "sfixed64", "uint32", "fixed32", "uint64", "fixed64"} ->
            JsonNumber("0")
      [] field.kind = "bool" -> JsonBool("false")
      [] field.kind \in {"string", "bytes"} -> JsonString("")
      [] field.kind = "message" ->
            GenerateMessageSkeleton(field.type, fields_order, depth)
      [] field.kind = "enum" ->
            IF EnumValues(field.type) # <<>>
            THEN JsonString(EnumValues(field.type)[1])
            ELSE JsonNumber("0")

\* The for loop of generate_message_skeleton over the fields still to visit
RECURSIVE SkeletonLoop(_, _, _, _, _)
SkeletonLoop(fields, todo, obj, fields_order, depth) ==
    IF todo = <<>> THEN JsonObject(obj)
    ELSE LET field       == fields[Head(todo)]
             field_value == GenerateFieldSkeleton(field, fields_order, depth)
         IN  IF field_value = StackOverflow THEN StackOverflow
             ELSE SkeletonLoop(
                      fields, Tail(todo),
                      MapInsert(obj, field.name,
                                CASE field.card = "list" -> JsonArray(<<field_value>>)
                                  [] field.card = "map" ->
                                        JsonObject(MapInsert(EmptyMap, "key",
                                                             JsonString("value")))
                                  [] OTHER -> field_value),
                      fields_order, depth)

GenerateMessageSkeleton(full_name, fields_order, depth) ==
    IF depth = 0 THEN StackOverflow
    ELSE SkeletonLoop(MessageFields(full_name),
                      OrderOf(fields_order, Len(MessageFields(full_name))),
                      EmptyMap, fields_order, depth - 1)

(***************************************************************************)
(* The commands.                                                           *)
(***************************************************************************)
ReflectionCommands == {"grpc_invoke_unary", "grpc_get_input_skeleton"}

ProtoCommands == {"grpc_proto_invoke_unary", "grpc_proto_get_input_skeleton"}

SkeletonCommands == {"grpc_get_input_skeleton", "grpc_proto_get_input_skeleton"}

InvokeCommands == {"grpc_invoke_unary", "grpc_proto_invoke_unary"}

\* strip_leading_dot
StripLeadingDot(name) == IF StartsWith(name, <<".">>) THEN Tail(name) ELSE name

\* The head of each command: the reflection commands normalize the target
\* and build the pool; the proto commands take the pool stored under the path
Start ==
    /\ pc = "start"
    /\ IF cmd \in ReflectionCommands
       THEN /\ norm_target' = NormalizeTargetWithTls(target, tls.use_tls)
            /\ pc' = "bp_validate"
            /\ UNCHANGED <<pool, result>>
       ELSE IF proto_path \notin DOMAIN pools
       THEN /\ Return(Err("Proto file not loaded: {}", <<proto_path>>))
            /\ UNCHANGED <<pool, norm_target>>
       ELSE /\ pool' = pools[proto_path]
            /\ norm_target' = IF cmd \in InvokeCommands
                              THEN NormalizeTargetWithTls(target, tls.use_tls)
                              ELSE norm_target
            /\ pc' = "resolve"
            /\ UNCHANGED result
    /\ UNCHANGED <<inputVars, reflVars, resolved, lookups, wire, netResponse>>

\* Resolve with the pool of a proto command read from ProtoState.pools again
ResolveFromCache ==
    /\ pc = "resolve"
    /\ resolved' =
          IF cmd \notin {"grpc_proto_invoke_unary", "grpc_proto_get_input_skeleton"}
          THEN ResolveMethodTypes(pool, full_method)
          ELSE IF proto_path \notin DOMAIN pools
          THEN Err("Proto file not loaded: {}", <<proto_path>>)
          ELSE ResolveMethodTypes(pools[proto_path], full_method)
    /\ lookups' = lookups + ServiceLookups(full_method)
    /\ IF IsErr(resolved') THEN Return(resolved')
       ELSE pc' = "input_desc" /\ UNCHANGED result
    /\ UNCHANGED <<inputVars, reflVars, norm_target, pool, wire, netResponse>>

\* let (input_type, output_type) = resolve_method_types(&pool, &full_method)?
Resolve ==
    /\ pc = "resolve"
    /\ resolved' = ResolveMethodTypes(pool, full_method)
    /\ lookups' = lookups + ServiceLookups(full_method)
    /\ IF IsErr(resolved') THEN Return(resolved')
       ELSE pc' = "input_desc" /\ UNCHANGED result
    /\ UNCHANGED <<inputVars, reflVars, norm_target, pool, wire, netResponse>>

\* pool.get_message_by_name(&strip_leading_dot(&input_type))
InputDesc ==
    /\ pc = "input_desc"
    /\ IF StripLeadingDot(resolved.val[1]) \notin pool.messages
       THEN Return(Err("Input message type not found: {}", <<resolved.val[1]>>))
       ELSE /\ pc' = IF cmd \in SkeletonCommands THEN "skeleton" ELSE "output_desc"
            /\ UNCHANGED result
    /\ UNCHANGED <<inputVars, reflVars, norm_target, pool, resolved, lookups, wire,
                   netResponse>>

\* pool.get_message_by_name(&strip_leading_dot(&output_type))
OutputDesc ==
    /\ pc = "output_desc"
    /\ IF StripLeadingDot(resolved.val[2]) \notin pool.messages
       THEN Return(Err("Output message type not found: {}", <<resolved.val[2]>>))
       ELSE pc' = "json" /\ UNCHANGED result
    /\ UNCHANGED <<inputVars, reflVars, norm_target, pool, resolved, lookups, wire,
                   netResponse>>

\* Ok(generate_message_skeleton(&input_desc)); a recursion that uses up the
\* stack ends the process
Skeleton ==
    /\ pc = "skeleton"
    /\ \E fields_order \in FieldOrders :
          LET skeleton == GenerateMessageSkeleton(StripLeadingDot(resolved.val[1]),
                                                  fields_order, MaxStack)
          IN  IF skeleton.json = StackOverflow.json THEN Return(Aborted)
              ELSE Return(Ok(skeleton))
    /\ UNCHANGED <<inputVars, reflVars, norm_target, pool, resolved, lookups, wire,
                   netResponse>>

\* JsonToDynamicMessage going on with what could be mapped
JsonToDynamicMessageLenient ==
    /\ pc = "json"
    /\ pc' = "connect"
    /\ UNCHANGED <<inputVars, reflVars, norm_target, pool, resolved, lookups, wire,
                   netResponse, result>>

\* json_to_dynamic_message(&request.request_json, input_desc.clone())?
JsonToDynamicMessage ==
    /\ pc = "json"
    /\ IF request_json = "conforming" THEN pc' = "connect" /\ UNCHANGED result
       ELSE Return(Err("Failed to map JSON to protobuf: {}", <<>>))
    /\ UNCHANGED <<inputVars, reflVars, norm_target, pool, resolved, lookups, wire,
                   netResponse>>

InvokeConnect == pc = "connect" /\ CreateChannel("ready")

InvokeReady == pc = "ready" /\ Ready("metadata", "gRPC client not ready: {}")

\* MetadataKey::from_bytes and MetadataValue::try_from
ValidMetadataKey(k) == k # <<>> /\ \A i \in 1..Len(k) : k[i] \notin {" ", "\n"}

ValidMetadataValue(v) == \A i \in 1..Len(v) : v[i] # "\n"

ValidMetadataEntry(k) == ValidMetadataKey(k) /\ ValidMetadataValue(metadata[k])

MetadataError(k) ==
    IF ~ValidMetadataKey(k) THEN Err("Invalid metadata key '{}': {}", <<k>>)
    ELSE Err("Invalid metadata value for '{}': {}", <<k>>)

\* The loop over request.metadata, a HashMap: the first invalid entry in the
\* order of the iteration, which may be any of them, ends the command
Metadata ==
    /\ pc = "metadata"
    /\ IF \A k \in DOMAIN metadata : ValidMetadataEntry(k)
       THEN pc' = "path" /\ UNCHANGED result
       ELSE \E k \in DOMAIN metadata :
               ~ValidMetadataEntry(k) /\ Return(MetadataError(k))
    /\ UNCHANGED <<inputVars, reflVars, norm_target, pool, resolved, lookups, wire,
                   netResponse>>

\* request.full_method.parse::<PathAndQuery>()
ValidPath(p) == \A i \in 1..Len(p) : ~IsWhitespace(p[i])

Path ==
    /\ pc = "path"
    /\ IF ValidPath(full_method) THEN pc' = "call" /\ UNCHANGED result
       ELSE Return(Err("Invalid method path: {}", <<>>))
    /\ UNCHANGED <<inputVars, reflVars, norm_target, pool, resolved, lookups, wire,
                   netResponse>>

\* IssueCall without the wait for readiness before it
IssueCallUnready ==
    /\ pc \in {"ready", "call"}
    /\ wire' = Append(wire, UnaryCall)
    /\ pc' = "inflight"
    /\ UNCHANGED <<inputVars, reflVars, norm_target, pool, resolved, lookups,
                   netResponse, result>>

\* grpc.unary(req, path, codec), awaited alone or inside tokio::time::timeout
IssueCall ==
    /\ pc = "call"
    /\ wire' = Append(wire, UnaryCall)
    /\ pc' = "inflight"
    /\ UNCHANGED <<inputVars, reflVars, norm_target, pool, resolved, lookups,
                   netResponse, result>>

\* tonic::Code::DeadlineExceeded as i32
DeadlineExceeded == 4

\* metadata_to_json_map: an ASCII value that is visible text is kept, one that
\* is not is dropped, a binary value is written as "base64:" and its encoding
MetadataToJsonMap(meta) ==
    {[key |-> e.key, value |-> e.value] : e \in {x \in meta : x.enc = "ascii"}}
        \cup {[key |-> e.key, value |-> <<"base64:">> \o e.value] :
                 e \in {x \in meta : x.enc = "binary"}}

\* The three envelopes of grpc_invoke_unary and grpc_proto_invoke_unary
SuccessEnvelope(data, headers) ==
    [success |-> TRUE, data |-> data, status |-> 0, statusMessage |-> "OK",
     headers |-> headers, trailers |-> {}]

\* StatusEnvelope reporting success
StatusEnvelopeSucceeding(status) ==
    [success |-> TRUE, status |-> status.code, statusMessage |-> status.message,
     details |-> status.details]

StatusEnvelope(status) ==
    [success |-> FALSE, status |-> status.code, statusMessage |-> status.message,
     details |-> status.details]

DeadlineEnvelope ==
    [success |-> FALSE, status |-> DeadlineExceeded,
     statusMessage |-> "deadline exceeded"]

\* match response { Ok(resp) => .., Err(status) => .. }
EnvelopeOf(response) ==
    IF response.kind = "response"
    THEN IF response.serializable
         THEN Ok(SuccessEnvelope(response.message,
                                 MetadataToJsonMap(response.metadata)))
         ELSE Err("Failed to map protobuf to JSON: {}", <<>>)
    ELSE Ok(StatusEnvelope(response))

\* What the unary call may end with
UnaryResponse(meta, message, serializable) ==
    [kind |-> "response", metadata |-> meta, message |-> message,
     serializable |-> serializable]

UnaryStatus(c, m) == [kind |-> "status", code |-> c, message |-> m, details |-> <<>>]

ResponseMetadata ==
    {[key |-> <<"k">>, enc |-> "ascii", value |-> <<"v">>],
     [key |-> <<"o">>, enc |-> "opaque", value |-> <<"w">>],
     [key |-> <<"b">>, enc |-> "binary", value |-> <<"x">>]}

UnaryOutcomes ==
    {UnaryResponse(ResponseMetadata, "reply", TRUE),
     UnaryResponse({}, "reply", FALSE),
     UnaryStatus(5, "not found"),
     UnaryStatus(14, "unavailable")}

\* The answer to the unary call arrives; the call may have been dropped
ResponseArrives ==
    /\ Events("unary") # <<>>
    /\ netResponse = <<>>
    /\ \E o \in UnaryOutcomes : netResponse' = <<o>>
    /\ UNCHANGED <<inputVars, reflVars, pc, norm_target, pool, resolved, lookups,
                   wire, result>>

\* call_fut is ready when polled: Ok(res) of the timeout, or call_fut.await
CallCompletes ==
    /\ pc = "inflight"
    /\ netResponse # <<>>
    /\ Return(EnvelopeOf(netResponse[1]))
    /\ UNCHANGED <<inputVars, reflVars, norm_target, pool, resolved, lookups, wire,
                   netResponse>>

\* TimerFires with the timer winning over a call that is ready
TimerFiresFirst ==
    /\ pc = "inflight"
    /\ deadline_ms # <<>>
    /\ Return(Ok(DeadlineEnvelope))
    /\ UNCHANGED <<inputVars, reflVars, norm_target, pool, resolved, lookups, wire,
                   netResponse>>

\* Err(_) of tokio::time::timeout: the timer fired with call_fut pending; the
\* timeout polls call_fut first, so a call that is ready wins
TimerFires ==
    /\ pc = "inflight"
    /\ deadline_ms # <<>>
    /\ netResponse = <<>>
    /\ Return(Ok(DeadlineEnvelope))
    /\ UNCHANGED <<inputVars, reflVars, norm_target, pool, resolved, lookups, wire,
                   netResponse>>

(***************************************************************************)
(* ProtoState: the commands on the map from paths to pools.                *)
(***************************************************************************)
ProtoPaths == {"p", "q"}

MaxOps == 3

NoOp == [name |-> "none"]

\* The pool of a proto file: service s, its method m with the given types,
\* and one method for each of the other message types
SchemaPool(input, output) ==
    [services |->
        <<[full_name |-> <<"s">>,
           methods |-> <<Method(<<"m">>, input, output),
                         Method(<<"a">>, <<"S">>, <<"O">>),
                         Method(<<"b">>, <<"P">>, <<"O">>),
                         Method(<<"c">>, <<"N">>, <<"O">>),
                         Method(<<"d">>, <<"M">>, <<"O">>),
                         Method(<<"e">>, <<"R">>, <<"O">>),
                         Method(<<"f">>, <<"T">>, <<"O">>),
                         Method(<<"g">>, <<"Z">>, <<"O">>)>>]>>,
     messages |-> MessageNames]

\* What the file at a path compiles to: its content may change between parses
CompiledPools == {SchemaPool(<<"I">>, <<"O">>), SchemaPool(<<"O">>, <<"I">>)}

\* What one run of grpc_parse_proto_file meets: whether the proto file
\* exists, where a compiler is found, whether it could be run, its exit
\* status and diagnostic, whether it wrote the descriptor-set file, whether
\* that file could be read, and what its bytes decode to (<<>>: nothing)
CompileRun(exists, vendored, on_path, spawned, exit_ok, stderr, wrote, readable, decoded) ==
    [exists |-> exists, vendored |-> vendored, on_path |-> on_path,
     spawned |-> spawned, exit_ok |-> exit_ok, stderr |-> stderr, wrote |-> wrote,
     readable |-> readable, decoded |-> decoded]

CompileRuns ==
    {CompileRun(FALSE, TRUE, TRUE, FALSE, FALSE, "", FALSE, FALSE, <<>>),
     CompileRun(TRUE, FALSE, FALSE, FALSE, FALSE, "", FALSE, FALSE, <<>>),
     CompileRun(TRUE, FALSE, TRUE, FALSE, FALSE, "", FALSE, FALSE, <<>>),
     CompileRun(TRUE, TRUE, TRUE, FALSE, FALSE, "", FALSE, FALSE, <<>>),
     CompileRun(TRUE, TRUE, FALSE, TRUE, FALSE, "x.proto:1:1: syntax error", FALSE,
                FALSE, <<>>),
     CompileRun(TRUE, FALSE, TRUE, TRUE, FALSE, "y.proto: File not found.", TRUE,
                TRUE, <<>>),
     CompileRun(TRUE, TRUE, TRUE, TRUE, TRUE, "", FALSE, FALSE, <<>>),
     CompileRun(TRUE, TRUE, TRUE, TRUE, TRUE, "", TRUE, FALSE, <<>>),
     CompileRun(TRUE, TRUE, TRUE, TRUE, TRUE, "warning: unused import", TRUE, TRUE,
                <<>>)}
        \cup {CompileRun(TRUE, v, ~v, TRUE, TRUE, "", TRUE, TRUE, <<pl>>) :
                 v \in BOOLEAN, pl \in CompiledPools}

ErrProtocNotFound ==
    Err("protoc not found. Please install Protocol Buffers compiler.", <<>>)

\* FindProtoc falling back on the name of the compiler when none is found
FindProtocByName(run) ==
    IF run.vendored THEN Ok("protoc_bin_vendored")
    ELSE IF run.on_path THEN Ok("which protoc")
    ELSE Ok("protoc")

\* protox_parse::find_protoc
FindProtoc(run) ==
    IF run.vendored THEN Ok("protoc_bin_vendored")
    ELSE IF run.on_path THEN Ok("which protoc")
    ELSE ErrProtocNotFound

\* protox_parse::parse_proto_file: its result, whether the compiler was run,
\* and whether the descriptor-set file exists when it returns
ParseProtoFile(run) ==
    IF IsErr(FindProtoc(run))
    THEN [result |-> FindProtoc(run), ran |-> FALSE, file |-> FALSE]
    ELSE IF ~run.spawned
    THEN [result |-> Err("Failed to run protoc: {}", <<>>), ran |-> FALSE,
          file |-> FALSE]
    ELSE IF ~run.exit_ok
    THEN [result |-> Err("protoc failed: {}", <<run.stderr>>), ran |-> TRUE,
          file |-> FALSE]
    ELSE IF ~(run.wrote /\ run.readable)
    THEN [result |-> Err("Failed to read descriptor set: {}", <<>>), ran |-> TRUE,
          file |-> run.wrote]
    ELSE IF run.decoded = <<>>
    THEN [result |-> Err("Failed to parse descriptor set: {}", <<>>), ran |-> TRUE,
          file |-> FALSE]
    ELSE [result |-> Ok(run.decoded[1]), ran |-> TRUE, file |-> FALSE]

\* service_full_name.rfind('.')
RECURSIVE RFind(_, _)
RFind(s, c) ==
    IF s = <<>> THEN 0
    ELSE IF s[Len(s)] = c THEN Len(s) ELSE RFind(SubSeq(s, 1, Len(s) - 1), c)

\* The ProtoFileInfo of grpc_parse_proto_file
ProtoMethodInfo(service_full_name, method) ==
    [name |-> method.name,
     full_method |-> <<"/">> \o service_full_name \o <<"/">> \o method.name,
     input_type |-> <<".">> \o method.input,
     output_type |-> <<".">> \o method.output]

ProtoServiceInfo(service) ==
    [name |-> SubSeq(service.full_name, RFind(service.full_name, ".") + 1,
                     Len(service.full_name)),
     full_name |-> service.full_name,
     methods |-> [j \in 1..Len(service.methods) |->
                     ProtoMethodInfo(service.full_name, service.methods[j])]]

RECURSIVE PackageOf(_)
PackageOf(services) ==
    IF services = <<>> THEN <<>>
    ELSE IF RFind(Head(services).full_name, ".") > 0
    THEN SubSeq(Head(services).full_name, 1,
                RFind(Head(services).full_name, ".") - 1)
    ELSE PackageOf(Tail(services))

ProtoFileInfo(path, pl) ==
    [path |-> path, package |-> PackageOf(pl.services),
     services |-> [i \in 1..Len(pl.services) |-> ProtoServiceInfo(pl.services[i])]]

\* pools.insert(proto_path, pool)
PoolsInsert(map, path, pl) ==
    [k \in DOMAIN map \cup {path} |-> IF k = path THEN pl ELSE map[k]]

\* PoolsRemove emptying the map
PoolsClear(map, path) == [k \in {} |-> map[k]]

\* pools.remove(&proto_path)
PoolsRemove(map, path) == [k \in DOMAIN map \ {path} |-> map[k]]

\* What the commands on ProtoState.pools leave alone
commandLocals == <<cmd, target, tls, full_method, metadata, deadline_ms,
                   request_json, proto_path, serverDeps, pc, norm_target, pool,
                   collected, seen, idx, deps, resolved, lookups, wire, netResponse,
                   result, initial, faithful, answered>>

commandVars == <<commandLocals, codecVars, mockVars>>

\* grpc_parse_proto_file dropping the pool of the path when the parse fails
GrpcParseProtoFileEvicting ==
    /\ ops < MaxOps
    /\ \E path \in ProtoPaths, run \in CompileRuns :
          LET parsed == ParseProtoFile(run)
              r == IF ~run.exists
                   THEN Err("Proto file not found: {}", <<path>>)
                   ELSE IF IsErr(parsed.result) THEN parsed.result
                   ELSE Ok(ProtoFileInfo(path, parsed.result.val))
          IN  /\ pools' = IF IsOk(r) THEN PoolsInsert(pools, path, parsed.result.val)
                          ELSE PoolsRemove(pools, path)
              /\ fs' = IF run.exists /\ parsed.file THEN fs \cup {ops} ELSE fs
              /\ lastOp' = [name |-> "grpc_parse_proto_file", path |-> path,
                            run |-> run, ran |-> run.exists /\ parsed.ran,
                            temp |-> ops, result |-> r]
    /\ ops' = ops + 1
    /\ UNCHANGED commandVars

\* grpc_parse_proto_file; the descriptor-set file is a file of its own for
\* each run (its name holds a fresh UUID)
GrpcParseProtoFile ==
    /\ ops < MaxOps
    /\ \E path \in ProtoPaths, run \in CompileRuns :
          LET parsed == ParseProtoFile(run)
              r == IF ~run.exists
                   THEN Err("Proto file not found: {}", <<path>>)
                   ELSE IF IsErr(parsed.result) THEN parsed.result
                   ELSE Ok(ProtoFileInfo(path, parsed.result.val))
          IN  /\ pools' = IF IsOk(r) THEN PoolsInsert(pools, path, parsed.result.val)
                          ELSE pools
              /\ fs' = IF run.exists /\ parsed.file THEN fs \cup {ops} ELSE fs
              /\ lastOp' = [name |-> "grpc_parse_proto_file", path |-> path,
                            run |-> run, ran |-> run.exists /\ parsed.ran,
                            temp |-> ops, result |-> r]
    /\ ops' = ops + 1
    /\ UNCHANGED commandVars

\* grpc_unload_proto
GrpcUnloadProto ==
    /\ ops < MaxOps
    /\ \E path \in ProtoPaths :
          /\ pools' = PoolsRemove(pools, path)
          /\ lastOp' = [name |-> "grpc_unload_proto", path |-> path,
                        result |-> Ok(<<>>)]
    /\ ops' = ops + 1
    /\ UNCHANGED <<commandVars, fs>>

\* grpc_list_loaded_protos: the keys of the map, in the order of its iteration
GrpcListLoadedProtos ==
    /\ ops < MaxOps
    /\ \E keys \in [1..Cardinality(DOMAIN pools) -> DOMAIN pools] :
          /\ \A path \in DOMAIN pools : \E i \in DOMAIN keys : keys[i] = path
          /\ lastOp' = [name |-> "grpc_list_loaded_protos", result |-> Ok(keys)]
    /\ ops' = ops + 1
    /\ UNCHANGED <<commandVars, pools, fs>>

(***************************************************************************)
(* The codec of dynamic messages.  A message of a descriptor is a map from *)
(* its field names to values: a number, a boolean, a string, the number of *)
(* an enum value, or a list of these; a field never set holds its default. *)
(* The bytes of a message are its wire fields in order, each the field     *)
(* number and the value; a field holding its default is not written.       *)
(***************************************************************************)
MaxList == 1

NumberTexts == <<"0", "1", "2", "3">>

\* The number a JSON number text denotes, and the text of a number
NumberOf(text) == (CHOOSE i \in DOMAIN NumberTexts : NumberTexts[i] = text) - 1

TextOf(n) == NumberTexts[n + 1]

FieldNamed(full_name, n) ==
    CHOOSE f \in {MessageFields(full_name)[i] : i \in DOMAIN MessageFields(full_name)} :
        f.name = n

FieldNames(full_name) ==
    {MessageFields(full_name)[i].name : i \in DOMAIN MessageFields(full_name)}

\* The default of one element of a field, and of the field
ElementDefault(field) ==
    CASE field.kind = "bool" -> FALSE
      [] field.kind = "string" -> ""
      [] OTHER -> 0

FieldDefault(field) == IF field.card = "list" THEN <<>> ELSE ElementDefault(field)

\* DynamicMessage::new(desc)
NewMessage(full_name) ==
    [n \in FieldNames(full_name) |-> FieldDefault(FieldNamed(full_name, n))]

\* Whether a JSON value is one of the forms of an element of the field
ElementConforms(field, j) ==
    CASE field.kind = "bool" -> j.json = "bool"
      [] field.kind = "string" -> j.json = "string"
      [] field.kind = "enum" ->
            \/ j.json = "number"
            \/ j.json = "string" /\
                  \E i \in DOMAIN EnumValues(field.type) :
                      EnumValues(field.type)[i] = j.text
      [] OTHER -> j.json = "number"

FieldConforms(field, j) ==
    IF field.card = "list"
    THEN j.json = "array" /\
            \A i \in DOMAIN j.items : ElementConforms(field, j.items[i])
    ELSE ElementConforms(field, j)

ElementOfJson(field, j) ==
    CASE field.kind = "bool" -> j.text = "true"
      [] field.kind = "string" -> j.text
      [] field.kind = "enum" /\ j.json = "string" ->
            (CHOOSE i \in DOMAIN EnumValues(field.type) :
                EnumValues(field.type)[i] = j.text) - 1
      [] OTHER -> NumberOf(j.text)

FieldOfJson(field, j) ==
    IF field.card = "list"
    THEN [i \in DOMAIN j.items |-> ElementOfJson(field, j.items[i])]
    ELSE ElementOfJson(field, j)

\* json_to_dynamic_message: DynamicMessage::deserialize(desc, ..) of the text
\* of the value; a member that names no field, or whose value is not of a
\* form of its field, is an error
JsonToDynamicMessageOf(full_name, j) ==
    IF \/ j.json # "object"
       \/ \E k \in DOMAIN j.members : k \notin FieldNames(full_name)
       \/ \E k \in DOMAIN j.members \cap FieldNames(full_name) :
              ~FieldConforms(FieldNamed(full_name, k), j.members[k])
    THEN Err("Failed to map JSON to protobuf: {}", <<>>)
    ELSE Ok([n \in FieldNames(full_name) |->
                IF n \in DOMAIN j.members
                THEN FieldOfJson(FieldNamed(full_name, n), j.members[n])
                ELSE FieldDefault(FieldNamed(full_name, n))])

WireField(number, v) == [number |-> number, value |-> v]

\* item.encode(dst): the fields in the order of their numbers; each element
\* of a list is written, a field that holds its default is not
RECURSIVE EncodeFrom(_, _, _)
EncodeFrom(full_name, item, number) ==
    IF number > Len(MessageFields(full_name)) THEN <<>>
    ELSE LET field == MessageFields(full_name)[number]
             v     == item[field.name]
         IN  (IF field.card = "list"
              THEN [i \in DOMAIN v |-> WireField(number, v[i])]
              ELSE IF v = FieldDefault(field) THEN <<>>
              ELSE <<WireField(number, v)>>)
                 \o EncodeFrom(full_name, item, number + 1)

\* DynamicMessageEncoder::encode
Encode(full_name, item) == EncodeFrom(full_name, item, 1)

\* msg.merge(src): the wire fields in order, a list appended to, any other
\* field overwritten
RECURSIVE Merge(_, _, _)
Merge(full_name, msg, buf) ==
    IF buf = <<>> THEN msg
    ELSE LET field == MessageFields(full_name)[Head(buf).number]
         IN  Merge(full_name,
                   [msg EXCEPT ![field.name] =
                       IF field.card = "list" THEN Append(@, Head(buf).value)
                       ELSE Head(buf).value],
                   Tail(buf))

\* DynamicMessageDecoder::decode: <<>> is Ok(None), <<msg>> is Ok(Some(msg))
Decode(full_name, buf) ==
    IF Len(buf) = 0 THEN <<>>
    ELSE <<Merge(full_name, NewMessage(full_name), buf)>>

ElementToJson(field, v) ==
    CASE field.kind = "bool" -> JsonBool(IF v THEN "true" ELSE "false")
      [] field.kind = "string" -> JsonString(v)
      [] field.kind = "enum" ->
            IF v + 1 \in DOMAIN EnumValues(field.type)
            THEN JsonString(EnumValues(field.type)[v + 1])
            ELSE JsonNumber(TextOf(v))
      [] OTHER -> JsonNumber(TextOf(v))

\* dynamic_message_to_json: serde_json::to_value(msg), the serialization of
\* a DynamicMessage with its default options: the fields that are set, an
\* enum by the name of its value
DynamicMessageToJson(full_name, msg) ==
    JsonObject(
        [n \in {k \in FieldNames(full_name) :
                    msg[k] # FieldDefault(FieldNamed(full_name, k))} |->
            LET field == FieldNamed(full_name, n)
            IN  IF field.card = "list"
                THEN JsonArray([i \in DOMAIN msg[n] |-> ElementToJson(field, msg[n][i])])
                ELSE ElementToJson(field, msg[n])])

\* What the codec leaves alone
commandRest == <<commandLocals, pools, protoVars, mockVars>>

\* The steps of a message through the codec
CodecMap ==
    /\ codecStage = "json"
    /\ LET mapped == JsonToDynamicMessageOf(codecDesc, codecJson)
       IN  IF IsErr(mapped)
           THEN codecStage' = "rejected" /\ UNCHANGED codecItem
           ELSE codecStage' = "encode" /\ codecItem' = <<mapped.val>>
    /\ UNCHANGED <<codecDesc, codecJson, codecBuf, codecDecoded, codecOut>>
    /\ UNCHANGED commandRest

CodecEncode ==
    /\ codecStage = "encode"
    /\ codecBuf' = Encode(codecDesc, codecItem[1])
    /\ codecStage' = "decode"
    /\ UNCHANGED <<codecDesc, codecJson, codecItem, codecDecoded, codecOut>>
    /\ UNCHANGED commandRest

CodecDecode ==
    /\ codecStage = "decode"
    /\ codecDecoded' = Decode(codecDesc, codecBuf)
    /\ codecStage' = IF codecDecoded' = <<>> THEN "no message" ELSE "to_json"
    /\ UNCHANGED <<codecDesc, codecJson, codecItem, codecBuf, codecOut>>
    /\ UNCHANGED commandRest

CodecToJson ==
    /\ codecStage = "to_json"
    /\ codecOut' = <<DynamicMessageToJson(codecDesc, codecDecoded[1])>>
    /\ codecStage' = "delivered"
    /\ UNCHANGED <<codecDesc, codecJson, codecItem, codecBuf, codecDecoded>>
    /\ UNCHANGED commandRest

(***************************************************************************)
(* The mock server.  A listener is a server task spawned by a start call:  *)
(* its port, the state of the oneshot channel its graceful shutdown waits  *)
(* on ("open", "sent" when () was sent, "dropped" when the sender was      *)
(* dropped unsent) and whether the task is still serving.  A call is a     *)
(* running mock_server_start or mock_server_stop and the place it is at.   *)
(***************************************************************************)
MaxCalls == 3

MockPorts == {3000, 3001}

StartCall(port, endpoints) ==
    [op |-> "mock_server_start", port |-> port, endpoints |-> endpoints,
     at |-> "check", listener |-> 0, message |-> ""]

StopCall ==
    [op |-> "mock_server_stop", port |-> 0, endpoints |-> FALSE, at |-> "stop",
     listener |-> 0, message |-> ""]

\* What the mock server leaves alone
mockRest == <<commandLocals, pools, protoVars, codecVars>>

Returned(c, message) ==
    calls' = [calls EXCEPT ![c].at = "returned", ![c].message = message]

\* The port is bound by a server task that has not ended
PortInUse(port) ==
    \E i \in DOMAIN listeners : listeners[i].serving /\ listeners[i].port = port

\* lines 90-108: the test of the handle under the read lock, then
\* build_routing_table
StartCheck(c) ==
    /\ calls[c].at = "check"
    /\ IF server_handle # <<>> THEN Returned(c, "Server is already running")
       ELSE IF ~calls[c].endpoints
       THEN Returned(c, "No endpoints to mock. Please enable at least one collection.")
       ELSE calls' = [calls EXCEPT ![c].at = "bind"]
    /\ UNCHANGED <<server_handle, listeners, mockRest>>

\* lines 116-148: the oneshot channel, TcpListener::bind and the spawn of
\* the server task; bind may fail for another reason than the port
StartBind(c) ==
    /\ calls[c].at = "bind"
    /\ \E bind_ok \in BOOLEAN :
          IF PortInUse(calls[c].port)
          THEN Returned(c, "Port {} is already in use") /\ UNCHANGED listeners
          ELSE IF ~bind_ok
          THEN Returned(c, "{}") /\ UNCHANGED listeners
          ELSE /\ listeners' = Append(listeners, [port |-> calls[c].port,
                                                  channel |-> "open",
                                                  serving |-> TRUE])
               /\ calls' = [calls EXCEPT ![c].at = "install",
                                         ![c].listener = Len(listeners) + 1]
    /\ UNCHANGED <<server_handle, mockRest>>

\* lines 150-160: the handle is overwritten under the write lock; the handle
\* that was there is dropped, and with it its sender
StartInstall(c) ==
    /\ calls[c].at = "install"
    /\ server_handle' = <<calls[c].listener>>
    /\ listeners' = IF server_handle = <<>> THEN listeners
                    ELSE [listeners EXCEPT ![server_handle[1]].channel = "dropped"]
    /\ Returned(c, "Server started on port {}")
    /\ UNCHANGED mockRest

\* mock_server_stop, the whole of it under the write lock
MockServerStop(c) ==
    /\ calls[c].at = "stop"
    /\ IF server_handle # <<>>
       THEN /\ server_handle' = <<>>
            /\ listeners' = [listeners EXCEPT ![server_handle[1]].channel = "sent"]
            /\ Returned(c, "Server stopped successfully")
       ELSE /\ Returned(c, "Server is not running")
            /\ UNCHANGED <<server_handle, listeners>>
    /\ UNCHANGED mockRest

\* with_graceful_shutdown: shutdown_rx.await has completed, on the value sent
\* or on the sender dropped, and the server task ends
ServerEnds(i) ==
    /\ listeners[i].serving
    /\ listeners[i].channel # "open"
    /\ listeners' = [listeners EXCEPT ![i].serving = FALSE]
    /\ UNCHANGED <<server_handle, calls, mockRest>>

(***************************************************************************)
(* Initial states.                                                         *)
(***************************************************************************)
\* A server whose files import each other in a cycle
CyclicDeps ==
    [n \in FileNames |->
        IF n = <<"a">> THEN <<<<"b">>>>
        ELSE IF n = <<"b">> THEN <<<<"a">>>> ELSE <<>>]

FixturePool ==
    PoolOfFiles(<<FileDescriptorProto(<<<<"a">>>>, <<>>),
                  FileDescriptorProto(<<<<"b">>>>, <<>>)>>)

\* Pools whose service and method names can be taken for each other
PoolChoices ==
    {EmptyPool,
     [services |-> <<[full_name |-> <<"s">>,
                      methods |-> <<Method(<<"m">>, <<"I">>, <<"O">>),
                                    Method(<<"s">>, <<"O">>, <<"I">>)>>]>>,
      messages |-> {<<"I">>, <<"O">>}],
     [services |-> <<[full_name |-> <<"s">>,
                      methods |-> <<Method(<<"m">>, <<"I">>, <<"O">>)>>],
                     [full_name |-> <<"m">>,
                      methods |-> <<Method(<<"s">>, <<"O">>, <<"O">>),
                                    Method(<<"m">>, <<"I">>, <<"I">>),
                                    Method(<<"m", "s">>, <<"O">>, <<"I">>)>>]>>,
      messages |-> {<<"I">>, <<"O">>}]}

MethodAlphabet == {"/", " ", "s", "m"}

MethodStrings == StringsUpTo(MethodAlphabet, MaxMethodLen)

WellFormedMethod == <<"/", "s", "/", "m">>

Pads == {<<>>, <<" ">>}

Schemes ==
    {<<>>, HttpPrefix, HttpsPrefix, <<"h", "t", "t", "p", ":", "/">>,
     <<"H", "T", "T", "P", ":", "/", "/">>}

Hosts == {<<"a">>, <<"a", ":", "1">>, <<>>}

TargetChoices ==
    {l \o sch \o h \o r : l \in Pads, sch \in Schemes, h \in Hosts, r \in Pads}

PlainTarget == <<"a", ":", "1">>

NoTls == [use_tls |-> FALSE, skip_verify |-> FALSE]

TlsChoices == [use_tls : BOOLEAN, skip_verify : BOOLEAN]

NoMetadata == <<>>

\* Maps with a valid entry, an invalid key, an invalid value
MetadataChoices ==
    {NoMetadata,
     [k \in {<<"k">>} |-> <<"v">>],
     [k \in {<<"k">>, <<" ">>} |-> <<"v">>],
     [k \in {<<"k">>, <<"j">>} |-> IF k = <<"j">> THEN <<"\n">> ELSE <<"v">>],
     [k \in {<<" ">>, <<"j">>} |-> <<"\n">>]}

DeadlineChoices == {<<>>, <<50>>}

JsonChoices == {"conforming", "nonconforming"}

ProtoPath == "p"

InitCommandLocals ==
    /\ pc = "start"
    /\ norm_target = <<>>
    /\ pool = EmptyPool
    /\ collected = <<>>
    /\ seen = {}
    /\ idx = 0
    /\ deps = <<>>
    /\ resolved = NoResult
    /\ lookups = 0
    /\ wire = <<>>
    /\ netResponse = <<>>
    /\ result = NoResult
    /\ initial = {}
    /\ faithful = TRUE
    /\ answered = <<>>
    /\ fs = {}
    /\ ops = 0
    /\ lastOp = NoOp

\* No message is in the codec
CodecIdle ==
    /\ codecStage = "idle"
    /\ codecDesc = <<>>
    /\ codecJson = JsonObject(EmptyMap)
    /\ codecItem = <<>>
    /\ codecBuf = <<>>
    /\ codecDecoded = <<>>
    /\ codecOut = <<>>

\* SERVER_HANDLE.get_or_init(|| RwLock::new(None)), no call under way
MockIdle ==
    /\ server_handle = <<>>
    /\ listeners = <<>>
    /\ calls = <<>>

InitLocals == InitCommandLocals /\ CodecIdle /\ MockIdle

\* One reflection resolution against every server
InitRefl ==
    /\ cmd = "grpc_get_input_skeleton"
    /\ target = PlainTarget
    /\ tls = NoTls
    /\ full_method = WellFormedMethod
    /\ metadata = NoMetadata
    /\ deadline_ms = <<>>
    /\ request_json = "conforming"
    /\ proto_path = ProtoPath
    /\ pools = <<>>
    /\ serverDeps \in Graphs
    /\ InitLocals

NextRefl ==
    \/ Start
    \/ BpValidate
    \/ BpConnect
    \/ BpReady
    \/ BpInitial
    \/ BpLoop
    \/ BpDeps
    \/ BpPool
    \/ Resolve
    \/ InputDesc
    \/ Skeleton

SpecRefl == InitRefl /\ [][NextRefl]_vars

\* resolve_method_types_from_pool on every address and on each pool
InitMethod ==
    /\ cmd = "grpc_proto_get_input_skeleton"
    /\ target = PlainTarget
    /\ tls = NoTls
    /\ full_method \in MethodStrings
    /\ metadata = NoMetadata
    /\ deadline_ms = <<>>
    /\ request_json = "conforming"
    /\ proto_path = ProtoPath
    /\ pools \in {[p \in {ProtoPath} |-> q] : q \in PoolChoices}
    /\ serverDeps = CyclicDeps
    /\ InitLocals

NextMethod == Start \/ Resolve

SpecMethod == InitMethod /\ [][NextMethod]_vars

\* normalize_target_with_tls on every target
InitNorm ==
    /\ cmd \in InvokeCommands
    /\ target \in TargetChoices
    /\ tls \in TlsChoices
    /\ full_method = WellFormedMethod
    /\ metadata = NoMetadata
    /\ deadline_ms = <<>>
    /\ request_json = "conforming"
    /\ proto_path = ProtoPath
    /\ pools = [p \in {ProtoPath} |-> FixturePool]
    /\ serverDeps = CyclicDeps
    /\ InitLocals

NextNorm == Start

SpecNorm == InitNorm /\ [][NextNorm]_vars

\* Addresses of every shape the check of the address tells apart
MethodChoices ==
    {WellFormedMethod,
     <<>>,
     <<"s", "/", "m">>,
     <<"/", "s">>,
     <<"/", "s", "/", "m", "/", "x">>,
     <<"/", "/", "s", "/", "/", "m", "/">>,
     <<" ", "/", "s", "/", "m", " ">>,
     <<"/", "s", "/", "m", " ">>,
     <<"/", "s", "/", "x">>,
     <<"/", "x", "/", "m">>}

\* The commands: every address with the other inputs at their defaults, and
\* the well-formed address with every other input
InitInvoke ==
    /\ cmd \in ReflectionCommands \cup ProtoCommands
    /\ target = PlainTarget
    /\ proto_path = ProtoPath
    /\ pools \in IF cmd \in ProtoCommands
                 THEN {<<>>, [p \in {ProtoPath} |-> FixturePool]}
                 ELSE {<<>>}
    /\ serverDeps = CyclicDeps
    /\ \/ /\ full_method \in MethodChoices
          /\ tls = NoTls
          /\ metadata = NoMetadata
          /\ deadline_ms = <<>>
          /\ request_json = "conforming"
       \/ /\ cmd \in InvokeCommands
          /\ full_method = WellFormedMethod
          /\ tls \in TlsChoices
          /\ metadata \in MetadataChoices
          /\ deadline_ms \in DeadlineChoices
          /\ request_json \in JsonChoices
    /\ InitLocals

Next ==
    \/ NextRefl
    \/ OutputDesc
    \/ JsonToDynamicMessage
    \/ InvokeConnect
    \/ InvokeReady
    \/ Metadata
    \/ Path
    \/ IssueCall
    \/ ResponseArrives
    \/ CallCompletes
    \/ TimerFires

Spec == InitInvoke /\ [][Next]_vars

\* The descriptors the codec is run for, and the JSON values given for them
CodecDescriptors == {<<"I">>, <<"O">>}

ElementCandidates(field) ==
    CASE field.kind = "bool" -> {JsonBool("false"), JsonBool("true"), JsonNumber("1")}
      [] field.kind = "string" -> {JsonString(""), JsonString("a")}
      [] field.kind = "enum" ->
            {JsonString(EnumValues(field.type)[i]) : i \in DOMAIN EnumValues(field.type)}
                \cup {JsonNumber("1")}
      [] OTHER -> {JsonNumber("0"), JsonNumber("1"), JsonString("a")}

FieldCandidates(field) ==
    IF field.card = "list"
    THEN {JsonArray(l) : l \in StringsUpTo(ElementCandidates(field), MaxList)}
    ELSE ElementCandidates(field)

\* A member "w" names no field of these descriptors
MemberCandidates(full_name, k) ==
    IF k \in FieldNames(full_name) THEN FieldCandidates(FieldNamed(full_name, k))
    ELSE {JsonNumber("0")}

JsonInputs(full_name) ==
    {JsonObject(m) :
        m \in UNION {{f \in [present -> UNION {MemberCandidates(full_name, k) :
                                                  k \in present}] :
                         \A k \in present : f[k] \in MemberCandidates(full_name, k)} :
                     present \in SUBSET (FieldNames(full_name) \cup {"w"})}}

\* One JSON value on its way through json_to_dynamic_message, the encoder,
\* the decoder and dynamic_message_to_json, for one descriptor
InitCodec ==
    /\ cmd = "grpc_invoke_unary"
    /\ target = PlainTarget
    /\ tls = NoTls
    /\ full_method = WellFormedMethod
    /\ metadata = NoMetadata
    /\ deadline_ms = <<>>
    /\ request_json = "conforming"
    /\ proto_path = ProtoPath
    /\ pools = <<>>
    /\ serverDeps = CyclicDeps
    /\ InitCommandLocals
    /\ MockIdle
    /\ codecStage = "json"
    /\ codecDesc \in CodecDescriptors
    /\ codecJson \in JsonInputs(codecDesc)
    /\ codecItem = <<>>
    /\ codecBuf = <<>>
    /\ codecDecoded = <<>>
    /\ codecOut = <<>>

NextCodec == CodecMap \/ CodecEncode \/ CodecDecode \/ CodecToJson

SpecCodec == InitCodec /\ [][NextCodec]_vars

\* The calls that run concurrently
CallChoices == {StartCall(port, TRUE) : port \in MockPorts} \cup {StartCall(3000, FALSE), StopCall}

\* MaxCalls calls on the mock server, started with no server running
InitMock ==
    /\ cmd = "grpc_invoke_unary"
    /\ target = PlainTarget
    /\ tls = NoTls
    /\ full_method = WellFormedMethod
    /\ metadata = NoMetadata
    /\ deadline_ms = <<>>
    /\ request_json = "conforming"
    /\ proto_path = ProtoPath
    /\ pools = <<>>
    /\ serverDeps = CyclicDeps
    /\ InitCommandLocals
    /\ CodecIdle
    /\ server_handle = <<>>
    /\ listeners = <<>>
    /\ calls \in [1..MaxCalls -> CallChoices]

NextMock ==
    \/ \E c \in DOMAIN calls : StartCheck(c)
    \/ \E c \in DOMAIN calls : StartBind(c)
    \/ \E c \in DOMAIN calls : StartInstall(c)
    \/ \E c \in DOMAIN calls : MockServerStop(c)
    \/ \E i \in DOMAIN listeners : ServerEnds(i)

SpecMock == InitMock /\ [][NextMock]_vars

\* The addresses of the methods of SchemaPool
SchemaMethods == {<<"/", "s", "/", n>> : n \in {"m", "a", "b", "c", "d", "e", "f", "g"}}

\* One proto command, started with no proto file loaded, and the commands on
\* ProtoState.pools running beside it
InitProto ==
    /\ cmd \in ProtoCommands
    /\ target = PlainTarget
    /\ tls = NoTls
    /\ full_method \in IF cmd \in SkeletonCommands THEN SchemaMethods
                       ELSE {WellFormedMethod}
    /\ metadata = NoMetadata
    /\ deadline_ms = <<>>
    /\ request_json = "conforming"
    /\ proto_path = ProtoPath
    /\ pools = <<>>
    /\ serverDeps = CyclicDeps
    /\ InitLocals

NextProto ==
    \/ Start
    \/ Resolve
    \/ InputDesc
    \/ OutputDesc
    \/ Skeleton
    \/ JsonToDynamicMessage
    \/ InvokeConnect
    \/ InvokeReady
    \/ Metadata
    \/ Path
    \/ IssueCall
    \/ ResponseArrives
    \/ CallCompletes
    \/ GrpcParseProtoFile
    \/ GrpcUnloadProto
    \/ GrpcListLoadedProtos

SpecProto == InitProto /\ [][NextProto]_vars

\* One invocation with a deadline
InitDeadline ==
    /\ cmd \in InvokeCommands
    /\ target = PlainTarget
    /\ tls = NoTls
    /\ full_method = WellFormedMethod
    /\ metadata = NoMetadata
    /\ deadline_ms = <<50>>
    /\ request_json = "conforming"
    /\ proto_path = ProtoPath
    /\ pools = [p \in {ProtoPath} |-> FixturePool]
    /\ serverDeps = CyclicDeps
    /\ InitLocals

\* The steps of an invocation that wait for nothing outside the process
LocalStep ==
    \/ Start
    \/ BpValidate
    \/ BpLoop
    \/ BpPool
    \/ Resolve
    \/ InputDesc
    \/ OutputDesc
    \/ JsonToDynamicMessage
    \/ Metadata
    \/ Path
    \/ IssueCall
    \/ CallCompletes

\* The steps that complete an await on the network, and the arrival of the
\* answer to the unary call
NetworkStep ==
    \/ BpConnect
    \/ BpReady
    \/ BpInitial
    \/ BpDeps
    \/ InvokeConnect
    \/ InvokeReady
    \/ ResponseArrives

NextDeadline == LocalStep \/ NetworkStep \/ TimerFires

\* An invocation against a server that may leave any await pending for ever:
\* the local steps are taken (the return of an answer that has arrived is
\* one), and so is the step of the timer of tokio::time::timeout, which runs
\* only while call_fut is awaited
SpecDeadline ==
    InitDeadline /\ [][NextDeadline]_vars /\ WF_vars(LocalStep) /\ WF_vars(TimerFires)

(***************************************************************************)
(* Properties of the reflection resolution.                                *)
(***************************************************************************)
Range(f) == {f[i] : i \in DOMAIN f}

\* The files reachable from the files of S through dependency declarations
RECURSIVE ReachableFrom(_)
ReachableFrom(S) ==
    LET T == S \cup UNION {Range(serverDeps[n]) : n \in S}
    IN  IF T = S THEN S ELSE ReachableFrom(T)

OnCycle(n) == n \in ReachableFrom(Range(serverDeps[n]))

\* build_descriptor_pool_for_method_with_tls has returned a pool
Resolved == cmd \in ReflectionCommands /\ (pc = "resolve" \/ resolved # NoResult)

\* C1: after a successful resolution against a server that answers every
\* file-by-filename request with the file of that name, the collected files
\* hold every file reachable from the files containing the symbol exactly
\* once: no two share a name, and no declared dependency of one is missing.
C1_EveryFileOnce ==
    (Resolved /\ faithful) =>
        /\ \A i, j \in 1..Len(collected) :
              i # j => collected[i].name # collected[j].name
        /\ \A n \in ReachableFrom(initial) :
              \E i \in 1..Len(collected) :
                 collected[i] = FileDescriptorProto(<<n>>, serverDeps[n])
        /\ \A i \in 1..Len(collected) :
              \A d \in Range(collected[i].dependency) :
                 \E j \in 1..Len(collected) : collected[j].name = <<d>>

\* C1's case: a cycle through all three files, fetched one request at a time
C1_Witness ==
    /\ Resolved /\ faithful
    /\ Cardinality(initial) = 1
    /\ \A n \in FileNames : OnCycle(n)
    /\ Len(collected) = 3
    /\ Len(Events("stream")) = 3

\* The traversal is under way
Traversing == pc \in {"bp_loop", "bp_deps"}

\* What is left of the traversal, in lexicographic order: the server files
\* not yet seen, the collected files not yet visited, the dependencies of
\* the current file not yet visited
Variant ==
    LET local == IF pc = "bp_deps" THEN Len(deps) + 1 ELSE 0
        width == MaxDeps + 2
    IN  Cardinality(FileNames \ seen) * (Cardinality(FileNames) + 1) * width
            + (Len(collected) - idx) * width
            + local

\* C2: the traversal terminates when every request is answered, whatever
\* the dependency declarations (cyclic and self-referential ones included):
\* the traversal can always take a step and every step of it decreases a
\* natural number, so the worklist index reaches the end of the collected
\* list after finitely many steps, each with at most one file-by-filename
\* request.
C2_TraversalTerminates ==
    /\ [](Traversing => (Variant >= 0 /\ ENABLED (BpLoop \/ BpDeps)))
    /\ [][(Traversing /\ Traversing') => Variant' < Variant]_vars
    /\ [][(Traversing /\ ~Traversing') =>
             (pc' = "done" \/ (pc' = "bp_pool" /\ idx' = Len(collected')))]_vars

\* C2's case: the traversal has ended on files that import themselves and
\* each other
C2_Witness ==
    /\ pc = "bp_pool" /\ idx = Len(collected)
    /\ \E n \in seen : n \in Range(serverDeps[n])
    /\ \E n, m \in seen : n # m /\ m \in Range(serverDeps[n]) /\ n \in Range(serverDeps[m])
    /\ Len(Events("stream")) >= 2

\* C3: an explicit error response to any reflection request fails the whole
\* resolution with that response's code and message, and a stream that ends
\* without a file-descriptor or error response fails it with the
\* 'no reflection response' error; no pool is produced in either case.
C3_ErrorFailsResolution ==
    answered # <<>> =>
        LET a == answered[1]
        IN  /\ (a.opening = "open" /\ a.first.kind = "error_response") =>
                  /\ pc = "done"
                  /\ IsErr(result)
                  /\ result.msg = "Reflection error {}: {}"
                  /\ result.args = <<a.first.code, a.first.message>>
                  /\ pool = EmptyPool
                  /\ resolved = NoResult
            /\ (a.opening = "open" /\ a.first.kind = "other" /\ a.ending = "end") =>
                  /\ pc = "done"
                  /\ IsErr(result)
                  /\ result.msg = "No reflection response received"
                  /\ pool = EmptyPool
                  /\ resolved = NoResult

\* C3's case: the error response answers a later file-by-filename request
C3_Witness ==
    /\ answered # <<>>
    /\ answered[1].first.kind = "error_response"
    /\ Len(collected) >= 2
    /\ Len(Events("stream")) >= 3
    /\ pc = "done"

CountOf(s, c) == Cardinality({i \in 1..Len(s) : s[i] = c})

\* The shape '/package.Service/Method': a slash, a segment, a slash, a
\* segment, the segments not empty, nothing around them
ExactShape(fm) ==
    /\ Len(fm) >= 4
    /\ fm[1] = "/"
    /\ CountOf(fm, "/") = 2
    /\ fm[2] # "/"
    /\ fm[Len(fm)] # "/"
    /\ ~IsWhitespace(fm[Len(fm)])

\* C5 as claimed: resolve_method returns the validation error for every
\* address that has not exactly the shape '/package.Service/Method'.
C5_OnlyExactShapeAccepted ==
    (resolved # NoResult /\ ~ExactShape(full_method)) => IsValidationError(resolved)

\* C6 as claimed: for a malformed address no service lookup is performed,
\* and a reflection command opens no channel and sends no reflection request.
C6_MalformedTouchesNothing ==
    ~ExactShape(full_method) =>
        /\ lookups = 0
        /\ cmd \in ReflectionCommands => wire = <<>>

\* Names of services and methods
Identifiers == StringsUpTo({"s", "m"}, MaxMethodLen) \ {<<>>}

MethodsNamed(pl, S, M) ==
    {m \in UNION {Range(sv.methods) : sv \in {x \in Range(pl.services) : x.full_name = S}} :
        m.name = M}

\* C7: for a well-formed address '/S/M', resolve_method returns the input and
\* output type names declared for method M of service S when both exist, an
\* error naming S when the pool has no service S, and an error naming M and S
\* when S has no method M; the service is looked up once.
C7_DeclaredTypesOrNamedError ==
    resolved # NoResult =>
        \A S, M \in Identifiers :
            full_method = <<"/">> \o S \o <<"/">> \o M =>
                /\ lookups = 1
                /\ IF \A sv \in Range(pool.services) : sv.full_name # S
                   THEN /\ IsErr(resolved)
                        /\ resolved.msg = "Service not found in descriptors: {}"
                        /\ resolved.args = <<S>>
                   ELSE IF MethodsNamed(pool, S, M) = {}
                   THEN /\ IsErr(resolved)
                        /\ resolved.msg = "Method not found: {} on {}"
                        /\ resolved.args = <<M, S>>
                   ELSE /\ IsOk(resolved)
                        /\ \E m \in MethodsNamed(pool, S, M) :
                              resolved.val = <<m.input, m.output>>

\* C7's case: the third method of the second service of a pool
C7_Witness ==
    /\ full_method = <<"/", "m", "/", "m", "s">>
    /\ IsOk(resolved)
    /\ resolved.val = <<<<"O">>, <<"I">>>>

(***************************************************************************)
(* Properties of target normalization.                                     *)
(***************************************************************************)
HasScheme(t) == StartsWith(t, HttpPrefix) \/ StartsWith(t, HttpsPrefix)

SchemeFor(use_tls) == IF use_tls THEN HttpsPrefix ELSE HttpPrefix

\* The local target is set
TargetNormalized ==
    pc \notin {"start", "done"} /\ cmd # "grpc_proto_get_input_skeleton"

\* C8 as claimed: a target with no scheme prefix gets 'https://' or 'http://'
\* put before it, and a target with a scheme prefix is returned unchanged.
C8_SchemeBeforeTarget ==
    TargetNormalized =>
        norm_target = IF HasScheme(target) THEN target
                      ELSE SchemeFor(tls.use_tls) \o target

\* The target without the whitespace around it
AllWhitespace(s) == \A i \in 1..Len(s) : IsWhitespace(s[i])

Stripped(s) ==
    CHOOSE t \in {SubSeq(s, i, j) : i \in 1..(Len(s) + 1), j \in 0..Len(s)} :
        /\ \E l, r \in {SubSeq(s, i, j) : i \in 1..(Len(s) + 1), j \in 0..Len(s)} :
              AllWhitespace(l) /\ AllWhitespace(r) /\ s = l \o t \o r
        /\ t # <<>> => (~IsWhitespace(t[1]) /\ ~IsWhitespace(t[Len(t)]))

\* C8, amended: the whitespace around the target is removed first; what is
\* left gets 'https://' (use_tls) or 'http://' put before it when it has no
\* 'http://' or 'https://' prefix, and is returned as it is when it has one,
\* whatever use_tls is.
C8_SchemeBeforeTrimmedTarget ==
    TargetNormalized =>
        norm_target = IF HasScheme(Stripped(target)) THEN Stripped(target)
                      ELSE SchemeFor(tls.use_tls) \o Stripped(target)

\* C8's case: a target with whitespace around it and TLS requested
C8_Witness ==
    /\ TargetNormalized
    /\ target = <<" ", "a", ":", "1", " ">>
    /\ tls.use_tls
    /\ norm_target = HttpsPrefix \o <<"a", ":", "1">>

(***************************************************************************)
(* Properties of the invocation.                                           *)
(***************************************************************************)
\* C9 as claimed: with an invalid metadata entry, no connection is opened,
\* no reflection request is made and no unary call is issued.
C9_InvalidMetadataSendsNothing ==
    (\E k \in DOMAIN metadata : ~ValidMetadataEntry(k)) => wire = <<>>

\* C10: with a deadline, when the timer fires on a call that has not
\* completed the invocation returns the envelope with success = false and
\* status = DEADLINE_EXCEEDED; when the call has completed, the invocation
\* returns the call's own result; the result, once returned, is never
\* replaced (a late answer is not delivered) and no second call is issued.
C10_DeadlineOrOwnResult ==
    /\ [](Len(Events("unary")) <= 1)
    /\ [][result # NoResult => result' = result]_vars
    /\ [][(pc = "inflight" /\ pc' = "done") =>
             IF netResponse = <<>>
             THEN /\ deadline_ms # <<>>
                  /\ IsOk(result')
                  /\ result'.val.success = FALSE
                  /\ result'.val.status = DeadlineExceeded
             ELSE IF netResponse[1].kind = "status"
             THEN /\ IsOk(result')
                  /\ result'.val.success = FALSE
                  /\ result'.val.status = netResponse[1].code
                  /\ result'.val.statusMessage = netResponse[1].message
             ELSE IF netResponse[1].serializable
             THEN /\ IsOk(result')
                  /\ result'.val.success = TRUE
                  /\ result'.val.data = netResponse[1].message
             ELSE IsErr(result')]_vars

\* C10's case: the timer has fired and the answer arrived afterwards
C10_Witness ==
    /\ pc = "done"
    /\ result = Ok(DeadlineEnvelope)
    /\ netResponse # <<>>
    /\ netResponse[1].kind = "response"

\* C11 as claimed: with a deadline set an invocation returns, whichever of
\* its awaits (channel connect, reflection-stream read, readiness wait,
\* unary call) never completes.
C11_DeadlineAlwaysReturns ==
    (cmd \in InvokeCommands /\ deadline_ms # <<>>) ~> (pc = "done")

\* An invocation has returned an envelope
Envelope == cmd \in InvokeCommands /\ pc = "done" /\ IsOk(result)

\* C12 as claimed: every envelope an invocation returns holds the fields
\* success, status, statusMessage and headers.
C12_EnvelopeHasRequiredFields ==
    Envelope =>
        {"success", "status", "statusMessage", "headers"} \subseteq DOMAIN result.val

\* C13: in every envelope success is true exactly when status is 0, which is
\* exactly when the call returned a response and no error status; a non-zero
\* status, the deadline one included, comes with success = false; data is
\* present only with success = true.
C13_SuccessIffStatusOk ==
    /\ [](Envelope =>
             /\ result.val.success = (result.val.status = 0)
             /\ "data" \in DOMAIN result.val => result.val.success)
    /\ [][(pc = "inflight" /\ pc' = "done" /\ IsOk(result')) =>
             (result'.val.success
                 <=> (netResponse # <<>> /\ netResponse[1].kind = "response"))]_vars

\* C13's case: the call returned an error status
C13_Witness ==
    /\ Envelope
    /\ netResponse # <<>>
    /\ netResponse[1].kind = "status"
    /\ result.val.status = 14
    /\ result.val.success = FALSE

\* The states of an invocation: Connecting until the channel has reported
\* ready, Ready until the call is issued, InFlight while it is awaited
InvocationState(at, r) ==
    CASE at \in {"connect", "ready"} -> "Connecting"
      [] at \in {"metadata", "path", "call"} -> "Ready"
      [] at = "inflight" -> "InFlight"
      [] at = "done" ->
            IF IsErr(r) THEN "Failed"
            ELSE IF r.val.success THEN "Completed"
            ELSE IF "details" \in DOMAIN r.val THEN "Failed"
            ELSE "DeadlineExceeded"
      [] OTHER -> "Preparing"

TerminalStates == {"Completed", "Failed", "DeadlineExceeded"}

\* The state that follows each state, a terminal state apart
FollowingState(st) ==
    CASE st = "Preparing" -> "Connecting"
      [] st = "Connecting" -> "Ready"
      [] st = "Ready" -> "InFlight"
      [] OTHER -> st

InvocationSteps == <<"connect", "ready", "metadata", "path", "call", "inflight", "done">>

StepIndex(at) ==
    IF \E i \in 1..Len(InvocationSteps) : InvocationSteps[i] = at
    THEN CHOOSE i \in 1..Len(InvocationSteps) : InvocationSteps[i] = at
    ELSE 0

\* What C14 says of one step of an invocation
InOrderStep ==
    LET st == InvocationState(pc, result)
        nx == InvocationState(pc', result')
    IN  /\ \/ nx = st
           \/ nx = FollowingState(st) /\ st \notin TerminalStates
           \/ nx = "Failed" /\ st \notin TerminalStates
           \/ nx \in TerminalStates /\ st = "InFlight"
        /\ StepIndex(pc') >= StepIndex(pc)
        /\ Len(Events("unary"))' > Len(Events("unary")) =>
              st = "Ready" /\ nx = "InFlight"
        /\ (nx = "Ready" /\ st # "Ready") =>
              (st = "Connecting" /\ wire # <<>> /\ wire[Len(wire)] = Connect)
        /\ st \in TerminalStates => (wire' = wire /\ result' = result /\ pc' = pc)

\* C14: an invocation passes through Connecting, Ready and InFlight in this
\* order and ends in exactly one of Completed, Failed and DeadlineExceeded:
\* every step keeps the state, moves to the state that follows it or ends the
\* invocation; the call is issued from Ready only, which is entered only from
\* Connecting on a connected channel; no earlier step is taken again; a
\* finished invocation does nothing more on the network and keeps its result.
C14_StatesInOrder ==
    /\ [][(cmd \in InvokeCommands) => InOrderStep]_vars
    /\ [](Events("unary") # <<>> =>
             InvocationState(pc, result) \in {"InFlight"} \cup TerminalStates)

\* C14's case: an invocation that went through every state and completed
C14_Witness ==
    /\ cmd = "grpc_proto_invoke_unary"
    /\ InvocationState(pc, result) = "Completed"
    /\ wire = <<Connect, UnaryCall>>

\* The channels a command needs: one for the reflection requests, one for
\* the call
Channels ==
    (IF cmd \in ReflectionCommands THEN 1 ELSE 0)
        + (IF cmd \in InvokeCommands THEN 1 ELSE 0)

FailureMessages(at) ==
    CASE at \in {"bp_connect", "connect"} ->
            {"Invalid target: {}", "TLS config error: {}", "Connection failed: {}"}
      [] at = "bp_ready" -> {"Reflection client not ready: {}"}
      [] at = "ready" -> {"gRPC client not ready: {}"}
      [] at \in {"bp_initial", "bp_deps"} ->
            {"Reflection client not ready: {}", "{}", "Reflection error {}: {}",
             "Failed to decode FileDescriptorProto: {}",
             "No reflection response received"}
      [] OTHER -> {}

\* The last reflection request was not answered with files
RequestFailed ==
    /\ answered # <<>>
    /\ \/ answered[1].opening # "open"
       \/ answered[1].first.kind # "file_descriptor_response"
       \/ ~answered[1].first.decodable

\* What C15 says of one step of a command
NoRetryStep ==
    /\ wire' # wire => (pc' # pc \/ (pc = "bp_deps" /\ Len(deps') < Len(deps)))
    /\ (pc' = "done" /\ FailureMessages(pc) # {}) =>
          (IsErr(result') /\ result'.msg \in FailureMessages(pc))
    /\ (pc = "inflight" /\ pc' = "done" /\ netResponse # <<>>
            /\ netResponse[1].kind = "status") =>
          (IsOk(result') /\ result'.val.status = netResponse[1].code)
    /\ pc = "done" => (wire' = wire /\ result' = result /\ pc' = pc)

\* C15: nothing is tried again: a step that fails at channel construction,
\* at the readiness wait or at a reflection request ends the command with
\* that failure as its result, and a failed unary call ends it with the
\* envelope of the call's status; every step on the network moves the command
\* on, each channel is connected once and the call is issued once; a
\* finished command does nothing more.
C15_NothingRetried ==
    /\ [](/\ Len(Events("connect")) <= Channels
          /\ Len(Events("unary")) <= 1
          /\ RequestFailed => (pc = "done" /\ IsErr(result)))
    /\ [][NoRetryStep]_vars

\* C15's case: the connect of the channel for the call has failed after a
\* successful resolution on the first channel
C15_Witness ==
    /\ pc = "done"
    /\ IsErr(result)
    /\ result.msg = "Connection failed: {}"
    /\ Len(Events("connect")) = 2
    /\ Len(Events("stream")) >= 1

(***************************************************************************)
(* Properties of the proto commands.                                       *)
(***************************************************************************)
\* The last command on the pools was grpc_parse_proto_file on a file that exists
LastParse == lastOp.name = "grpc_parse_proto_file" /\ lastOp.run.exists

NoCompiler == ~lastOp.run.vendored /\ ~lastOp.run.on_path

CompilerFailed ==
    /\ lastOp.run.vendored \/ lastOp.run.on_path
    /\ lastOp.run.spawned
    /\ ~lastOp.run.exit_ok

\* C16: when no compiler is found, neither the bundled one nor one on PATH,
\* the parse fails with the 'protoc not found' error and nothing is run in
\* its place; when the compiler runs and exits non-zero, the parse fails with
\* an error that carries the compiler's stderr text; neither stores a pool.
C16_CompilerFailureIsReported ==
    /\ [](LastParse =>
             /\ NoCompiler =>
                   /\ IsErr(lastOp.result)
                   /\ lastOp.result.msg = ErrProtocNotFound.msg
                   /\ ~lastOp.ran
             /\ CompilerFailed =>
                   /\ IsErr(lastOp.result)
                   /\ lastOp.result.msg = "protoc failed: {}"
                   /\ lastOp.result.args = <<lastOp.run.stderr>>)
    /\ [][(ops' # ops /\ (LastParse /\ (NoCompiler \/ CompilerFailed))')
             => pools' = pools]_vars

\* C16's case: the compiler has exited non-zero on a path loaded before
C16_Witness ==
    /\ LastParse
    /\ CompilerFailed
    /\ lastOp.run.stderr = "x.proto:1:1: syntax error"
    /\ lastOp.path \in DOMAIN pools
    /\ ops = 2

\* C17 as claimed: when parse_proto_file has returned, the descriptor-set
\* file of that compilation does not exist.
C17_TempFileRemoved == LastParse => lastOp.temp \notin fs

\* What C18 says of one step, for the pool under one path
CacheStep(path) ==
    LET unloaded == /\ ops' # ops
                    /\ lastOp'.name = "grpc_unload_proto"
                    /\ lastOp'.path = path
        parsed   == /\ ops' # ops
                    /\ lastOp'.name = "grpc_parse_proto_file"
                    /\ lastOp'.path = path
                    /\ IsOk(lastOp'.result)
    IN  /\ (path \in DOMAIN pools /\ path \notin DOMAIN pools') => unloaded
        /\ (path \in DOMAIN pools /\ path \in DOMAIN pools'
                /\ pools'[path] # pools[path]) => parsed
        /\ (path \notin DOMAIN pools /\ path \in DOMAIN pools') => parsed
        /\ unloaded => path \notin DOMAIN pools'
        /\ parsed => path \in DOMAIN pools'

\* C18: a stored pool stays under its path, unchanged, through every step
\* but an unload of that path, which removes it, and a successful parse of
\* that path, which replaces it; a path enters the map only by a successful
\* parse; grpc_list_loaded_protos returns the paths of the map, each once,
\* and changes nothing.
C18_PoolStaysUntilUnloaded ==
    /\ [][\A path \in ProtoPaths : CacheStep(path)]_vars
    /\ [][(ops' # ops /\ lastOp'.name = "grpc_list_loaded_protos") =>
             /\ pools' = pools
             /\ Range(lastOp'.result.val) = DOMAIN pools
             /\ Len(lastOp'.result.val) = Cardinality(DOMAIN pools)]_vars

\* C18's case: two paths were loaded and one of them unloaded, the command
\* beside them having finished
C18_Witness ==
    /\ lastOp.name = "grpc_unload_proto"
    /\ lastOp.path = "q"
    /\ DOMAIN pools = {"p"}
    /\ pc = "done"
    /\ IsOk(result)

\* The proto command has taken its pool
SnapshotTaken == cmd \in ProtoCommands /\ pc # "start" /\ pool # EmptyPool

\* C19: pools are values that never change: what the map holds under a path
\* is one of the pools a parse built, and a proto command that has taken its
\* pool keeps it through every unload and parse beside it: its types are
\* resolved in that pool, its skeleton is that of the input type of that pool,
\* and 'not loaded' is returned by the step that takes the pool only.
C19_SnapshotIsKept ==
    /\ [](/\ \A path \in DOMAIN pools : pools[path] \in CompiledPools
          /\ SnapshotTaken =>
                /\ pool \in CompiledPools
                /\ resolved # NoResult =>
                      resolved = ResolveMethodTypes(pool, full_method))
    /\ [][SnapshotTaken => pool' = pool]_vars
    /\ [][(result' # result /\ IsErr(result')
              /\ result'.msg = "Proto file not loaded: {}") => pc = "start"]_vars

\* C19's case: the path was parsed again, to another pool, after the command
\* took its pool, and the command has returned the skeleton of the input
\* type of the pool it took
C19_Witness ==
    /\ cmd = "grpc_proto_get_input_skeleton"
    /\ full_method = WellFormedMethod
    /\ pool = SchemaPool(<<"I">>, <<"O">>)
    /\ proto_path \in DOMAIN pools
    /\ pools[proto_path] = SchemaPool(<<"O">>, <<"I">>)
    /\ pc = "done"
    /\ IsOk(result)
    /\ DOMAIN result.val.members = {"x", "y", "z"}

\* What a call of generate_message_skeleton on the resolved input type
\* returns when the fields come in the given order
SkeletonResult(fields_order) ==
    LET skeleton == GenerateMessageSkeleton(StripLeadingDot(resolved.val[1]),
                                            fields_order, MaxStack)
    IN  IF skeleton.json = StackOverflow.json THEN Aborted ELSE Ok(skeleton)

\* C20: a call of generate_message_skeleton returns what every other call on
\* the same descriptor returns, whatever the order the fields come in, and
\* the step changes nothing but the result of the command: not the pools,
\* not the pool of the command, no file, nothing on the network.
C20_SkeletonDeterministic ==
    [][(pc = "skeleton" /\ pc' = "done") =>
          /\ \A fields_order \in FieldOrders : result' = SkeletonResult(fields_order)
          /\ UNCHANGED <<pools, pool, resolved, fs, ops, lastOp, wire, netResponse,
                         lookups>>]_vars

\* C20's case: the skeleton of a message with a nested message, a map and a
\* list has been returned
C20_Witness ==
    /\ cmd = "grpc_proto_get_input_skeleton"
    /\ full_method = <<"/", "s", "/", "b">>
    /\ pc = "done"
    /\ IsOk(result)
    /\ DOMAIN result.val.members = {"inner", "tags", "kids"}
    /\ result.val.members["kids"] = JsonArray(<<result.val.members["inner"]>>)

(***************************************************************************)
(* C21, C22: the value of the skeleton.                                    *)
(***************************************************************************)
\* The message types a message type refers to through its fields, map
\* entries and list elements included
RefersTo(full_name) ==
    {f.type : f \in {g \in Range(MessageFields(full_name)) : g.kind = "message"}}

RECURSIVE ReachableTypes(_, _)
ReachableTypes(names, n) ==
    IF n = 0 THEN names
    ELSE ReachableTypes(names \cup UNION {RefersTo(m) : m \in names}, n - 1)

\* The message type refers to itself, directly or through other messages
SelfReferential(full_name) ==
    \E m \in ReachableTypes({full_name}, Cardinality(MessageNames)) :
        m \in ReachableTypes(RefersTo(m), Cardinality(MessageNames))

\* C21: the skeleton generation has no failure mode and terminates for every
\* message type, the types that refer to themselves included: a skeleton
\* command that has resolved its input type ends with the skeleton.
C21_SkeletonAlwaysReturns ==
    (cmd \in SkeletonCommands /\ pc = "done" /\ ~IsErr(result)) =>
        result.tag = "Ok"

\* The generation ends the process exactly for the message types that refer
\* to themselves
C21_AbortsOnSelfReference ==
    (cmd \in SkeletonCommands /\ pc = "done" /\ ~IsErr(result)) =>
        (result.tag = "Aborted" <=> SelfReferential(StripLeadingDot(resolved.val[1])))

\* The value the described shape gives a field of a scalar or enum kind
PlaceholderOf(field) ==
    CASE field.kind = "bool" -> JsonBool("false")
      [] field.kind \in {"string", "bytes"} -> JsonString("")
      [] field.kind = "enum" -> JsonString(Head(EnumValues(field.type)))
      [] field.kind \in {"double", "float"} -> JsonNumber("0.0")
      [] OTHER -> JsonNumber("0")

\* The described skeleton of a message type whose nesting is at most depth
RECURSIVE ShapeOf(_, _)
ShapeOf(full_name, depth) ==
    LET fields  == Range(MessageFields(full_name))
        named(n) == CHOOSE f \in fields : f.name = n
        element(f) == IF f.kind = "message"
                      THEN IF depth = 0 THEN JsonObject(EmptyMap)
                           ELSE ShapeOf(f.type, depth - 1)
                      ELSE PlaceholderOf(f)
    IN  JsonObject([n \in {f.name : f \in fields} |->
            CASE named(n).card = "list" -> JsonArray(<<element(named(n))>>)
              [] named(n).card = "map" ->
                    JsonObject([k \in {"key"} |-> JsonString("value")])
              [] OTHER -> element(named(n))])

\* Every enum the message type reaches declares a value
EnumsHaveValues(full_name) ==
    \A m \in ReachableTypes({full_name}, Cardinality(MessageNames)) :
        \A f \in Range(MessageFields(m)) :
            f.kind = "enum" => EnumValues(f.type) # <<>>

\* C22: the skeleton a command returns is a JSON object with one entry per
\* declared field, keyed by the field name: a one-element array of the
\* element's skeleton for a list, {"key": "value"} for a map, the nested
\* skeleton for a message, the first declared value for an enum and 0,
\* false or "" for the scalars.
C22_SkeletonShape ==
    (cmd \in SkeletonCommands /\ pc = "done" /\ IsOk(result)
        /\ EnumsHaveValues(StripLeadingDot(resolved.val[1]))) =>
        result.val = ShapeOf(StripLeadingDot(resolved.val[1]), MaxStack)

\* C22's case: the skeleton of a message with a number, a list of strings
\* and an enum has been returned
C22_Witness ==
    /\ cmd = "grpc_proto_get_input_skeleton"
    /\ pc = "done"
    /\ IsOk(result)
    /\ resolved.val[1] = <<"I">>
    /\ result.val.members["y"] = JsonArray(<<JsonString("")>>)
    /\ result.val.members["z"] = JsonString("E_FIRST")
    /\ result.val.members["x"] = JsonNumber("0")

(***************************************************************************)
(* C27: a failed parse and the cache.                                      *)
(***************************************************************************)
\* The run is one of the failures: the proto file is missing, no compiler is
\* found, the compiler cannot be run or exits non-zero, the descriptor set
\* cannot be read or cannot be decoded
ParseFails(run) ==
    \/ ~run.exists
    \/ ~run.vendored /\ ~run.on_path
    \/ ~run.spawned
    \/ ~run.exit_ok
    \/ ~run.wrote
    \/ ~run.readable
    \/ run.decoded = <<>>

FailedParseStep ==
    (ops' # ops /\ lastOp'.name = "grpc_parse_proto_file" /\ ParseFails(lastOp'.run))
        => (IsErr(lastOp'.result) /\ pools' = pools)

LoadedPoolIsTaken ==
    (cmd \in ProtoCommands /\ pc = "start" /\ pc' # pc /\ proto_path \in DOMAIN pools)
        => (pc' = "resolve" /\ pool' = pools[proto_path])

\* C27: a grpc_parse_proto_file that fails, for whichever of these reasons,
\* returns an error and leaves the cache as it was: the pool loaded under the
\* same path before stays in the map, and a proto command that starts
\* afterwards takes that pool.
C27_FailedParseKeepsCache == [][FailedParseStep]_vars /\ [][LoadedPoolIsTaken]_vars

\* C27's case: the path of the command was loaded, a second parse of it has
\* failed on an undecodable descriptor set, and the command starts now
C27_Witness ==
    /\ ops = 2
    /\ lastOp.name = "grpc_parse_proto_file"
    /\ lastOp.path = proto_path
    /\ lastOp.run.exit_ok /\ lastOp.run.readable /\ lastOp.run.decoded = <<>>
    /\ IsErr(lastOp.result)
    /\ proto_path \in DOMAIN pools
    /\ pc = "start"

(***************************************************************************)
(* C29: the methods a parse lists and the pool it stores.                  *)
(***************************************************************************)
\* The ProtoMethodInfo records grpc_parse_proto_file lists for a pool
ListedMethods(pl) ==
    UNION {Range(ProtoFileInfo(ProtoPath, pl).services[i].methods) :
              i \in 1..Len(pl.services)}

\* The listed method is resolved in the pool, to the method it was listed
\* for and to the listed types, both of them messages of the pool
ListedMethodResolves(pl, info) ==
    LET types == ResolveMethodTypes(pl, info.full_method)
    IN  /\ IsOk(types)
        /\ \E i \in 1..Len(pl.services) : \E j \in 1..Len(pl.services[i].methods) :
              /\ info = ProtoMethodInfo(pl.services[i].full_name,
                                        pl.services[i].methods[j])
              /\ types.val = <<pl.services[i].methods[j].input,
                               pl.services[i].methods[j].output>>
        /\ types.val[1] = StripLeadingDot(info.input_type)
        /\ types.val[2] = StripLeadingDot(info.output_type)
        /\ types.val[1] \in pl.messages
        /\ types.val[2] \in pl.messages

\* The part of C29 about resolve_method_types_from_pool: every method listed
\* for a stored pool is resolved in it, to the listed types
C29_ListedMethodsResolve ==
    \A path \in DOMAIN pools : \A info \in ListedMethods(pools[path]) :
        ListedMethodResolves(pools[path], info)

\* C29 as claimed: every method grpc_parse_proto_file lists is resolved in
\* the stored pool to the listed types, both found in the pool, and
\* grpc_proto_get_input_skeleton on the pool succeeds for every listed method.
C29_ListedMethodsUsable ==
    /\ C29_ListedMethodsResolve
    /\ (cmd = "grpc_proto_get_input_skeleton" /\ SnapshotTaken /\ pc = "done"
            /\ \E info \in ListedMethods(pool) : info.full_method = full_method)
        => IsOk(result)

(***************************************************************************)
(* C28: the file-by-filename requests of one resolution.                   *)
(***************************************************************************)
\* The names requested by filename, in the order of the requests
FilenameRequests(w) ==
    LET reqs == SelectSeq(Requests(w), LAMBDA r : r.kind = "file_by_filename")
    IN  [i \in 1..Len(reqs) |-> reqs[i].arg]

\* C28 as claimed: whatever files the server returns, no dependency name is
\* requested by filename more than once during a resolution.
C28_EachNameRequestedOnce ==
    \A i, j \in 1..Len(FilenameRequests(wire)) :
        i # j => FilenameRequests(wire)[i] # FilenameRequests(wire)[j]

\* The step sends a file-by-filename request: it is the one event added to
\* the wire
SendsFilenameRequest ==
    /\ wire' # wire
    /\ wire'[Len(wire')].ev = "stream"
    /\ wire'[Len(wire')].reqs[1].kind = "file_by_filename"

RequestStep ==
    SendsFilenameRequest =>
        /\ wire' = Append(wire, ReflectionInfoStream(FileByFilename(Head(deps))))
        /\ pc = "bp_deps" /\ deps # <<>>
        /\ Head(deps) \notin seen

\* C28, amended: a file-by-filename request is sent for a declared dependency
\* of a collected file, and never for the name of a file already ingested;
\* when the server has answered every such request with the file of that
\* name, no name has been requested twice.
C28_NeverForIngestedName ==
    /\ [][RequestStep]_vars
    /\ [](faithful => C28_EachNameRequestedOnce)

\* C28's case: a faithful server, two files fetched by name, and a later
\* dependency on a name already ingested, which was not requested again
C28_Witness ==
    /\ Resolved /\ faithful
    /\ Len(FilenameRequests(wire)) = 2
    /\ Len(collected) = 3
    /\ \A n \in FileNames : OnCycle(n)

(***************************************************************************)
(* C25, C26: the request message and the channel of an invocation.         *)
(***************************************************************************)
ErrFailedToMap == Err("Failed to map JSON to protobuf: {}", <<>>)

\* The channels a command opens before it maps the request: the one of the
\* reflection resolution
ResolutionChannels == IF cmd \in ReflectionCommands THEN 1 ELSE 0

MappingStep ==
    (pc = "json" /\ pc' # pc) =>
        IF request_json = "conforming"
        THEN pc' = "connect" /\ result' = result /\ wire' = wire
        ELSE pc' = "done" /\ result' = ErrFailedToMap /\ wire' = wire

\* C25: the conversion of the request JSON is all or nothing: a JSON that
\* does not conform to the input descriptor ends the invocation with the one
\* mapping error; no channel is opened for the invocation and no unary call
\* is made, then or later.
C25_MappingIsAllOrNothing ==
    /\ [][MappingStep]_vars
    /\ []((cmd \in InvokeCommands /\ request_json = "nonconforming") =>
              /\ Len(Events("unary")) = 0
              /\ Len(Events("connect")) <= ResolutionChannels
              /\ pc = "done" => IsErr(result))

\* C25's case: an invocation through reflection has resolved its method and
\* ended on the mapping error, the channel of the resolution the only one
C25_Witness ==
    /\ cmd = "grpc_invoke_unary"
    /\ request_json = "nonconforming"
    /\ pc = "done"
    /\ IsErr(result) /\ result.msg = ErrFailedToMap.msg
    /\ Len(Events("connect")) = 1
    /\ Len(Events("stream")) >= 1

\* The options with skip_verify set to the given value
WithSkipVerify(tls_options, skip_verify) ==
    [tls_options EXCEPT !.skip_verify = skip_verify]

ConnectStep ==
    (pc \in {"bp_connect", "connect"} /\ pc' # pc) =>
        \/ pc' \in {"bp_ready", "ready"} /\ result' = result
        \/ /\ pc' = "done"
           /\ result'.msg \in {"Invalid target: {}", "Connection failed: {}"}
        \/ /\ pc' = "done"
           /\ result'.msg = "TLS config error: {}"
           /\ tls.use_tls

\* C26: the channel does not depend on tls.skip_verify: the endpoint built
\* for the options is the one built for the options with skip_verify set
\* either way, its TLS configuration is the default one exactly when use_tls
\* is set, and the target it is built for is the target normalized by
\* use_tls alone; a connect step ends the same ways whatever skip_verify is.
C26_SkipVerifyIgnored ==
    /\ [](\A skip_verify \in BOOLEAN :
             /\ Endpoint(norm_target, WithSkipVerify(tls, skip_verify))
                   = Endpoint(norm_target, tls)
             /\ Endpoint(norm_target, tls).tls_config =
                   IF tls.use_tls THEN <<"ClientTlsConfig::new()">> ELSE <<>>
             /\ pc \in {"bp_connect", "connect"} =>
                   norm_target = NormalizeTargetWithTls(target, tls.use_tls))
    /\ [][ConnectStep]_vars

\* C26's case: an invocation over TLS with skip_verify set has failed to
\* connect
C26_Witness ==
    /\ cmd \in InvokeCommands
    /\ tls.use_tls /\ tls.skip_verify
    /\ pc = "done"
    /\ IsErr(result) /\ result.msg = "Connection failed: {}"
    /\ Len(Events("connect")) >= 1

(***************************************************************************)
(* C23, C24: the codec.                                                    *)
(***************************************************************************)
Decoding == codecStage \in {"no message", "to_json", "delivered"}

\* The decoder returns None exactly for the empty buffer, and for any other
\* the merge of the whole buffer into a new message of the descriptor
C23_NoneForEmptyBuffer ==
    Decoding =>
        /\ codecDecoded = <<>> <=> Len(codecBuf) = 0
        /\ codecDecoded # <<>> =>
              codecDecoded[1] = Merge(codecDesc, NewMessage(codecDesc), codecBuf)

\* C23 as claimed: the decoder returns None exactly for the empty buffer and
\* the merged message for any other, and a message whose fields all hold
\* their defaults is delivered as a present, empty message.
C23_EmptyMessageDelivered ==
    /\ C23_NoneForEmptyBuffer
    /\ (Decoding /\ codecItem = <<NewMessage(codecDesc)>>) =>
          codecDecoded = <<NewMessage(codecDesc)>>

\* C24 as claimed: a JSON value that conforms to the descriptor, mapped to a
\* message, encoded, decoded with the same descriptor and mapped back, gives
\* the JSON value again.
C24_RoundTrip ==
    (codecStage \in {"no message", "delivered"}) => codecOut = <<codecJson>>

\* The JSON value has a member, and none of its members holds the default
\* of its field, an empty list or an enum value by its number
WithoutDefaults(full_name, j) ==
    /\ DOMAIN j.members # {}
    /\ \A k \in DOMAIN j.members :
          /\ FieldOfJson(FieldNamed(full_name, k), j.members[k])
                # FieldDefault(FieldNamed(full_name, k))
          /\ FieldNamed(full_name, k).kind = "enum" => j.members[k].json = "string"

\* The round trip gives the JSON value again when no member of it holds a
\* default
C24_RoundTripWithoutDefaults ==
    (codecStage \in {"no message", "delivered"} /\ WithoutDefaults(codecDesc, codecJson))
        => codecOut = <<codecJson>>

(***************************************************************************)
(* C30: the mock servers that run.                                         *)
(***************************************************************************)
\* The server tasks that are serving and have not been told to end
Running == {i \in DOMAIN listeners : listeners[i].serving /\ listeners[i].channel = "open"}

\* The listener has been spawned by a start call that is about to install it
BeingInstalled(i) ==
    \E c \in DOMAIN calls : calls[c].at = "install" /\ calls[c].listener = i

\* C30 as claimed: at most one mock server runs at any time, and every
\* listener that was started is the one of the global handle (or about to
\* be made it by the call that started it) or has been sent its shutdown
\* signal.
C30_AtMostOneServer ==
    /\ Cardinality(Running) <= 1
    /\ \A i \in DOMAIN listeners :
          server_handle = <<i>> \/ listeners[i].channel = "sent" \/ BeingInstalled(i)

\* What holds of the listeners: each is the one of the handle, or its
\* channel was sent on or closed, or the start call that spawned it has yet
\* to install it; once every call has returned, at most one server runs and
\* it is the one of the handle
C30_NoServerLeftBehind ==
    /\ \A i \in DOMAIN listeners :
          \/ server_handle = <<i>>
          \/ listeners[i].channel # "open"
          \/ BeingInstalled(i)
    /\ (\A c \in DOMAIN calls : calls[c].at = "returned") =>
          (Running = {} /\ server_handle = <<>>) \/ Running = {server_handle[1]}

=============================================================================
